---- MODULE Spec2Model ----
(***************************************************************************)
(* Multi-tenant request scoping, database routing and shop provisioning    *)
(* of BlueOlive (backend/core/tenancy).                                    *)
(*                                                                         *)
(*   Spec          the request-scoping middleware run by concurrent        *)
(*                 workers (threads), each with its own thread-local       *)
(*                 Context Store, over the process-wide Connection         *)
(*                 Registry.                                               *)
(*   SpecRouter    the Database Router's decision functions applied to     *)
(*                 bounded module-list configurations and contexts.        *)
(*   SpecProvision create_shop_schema run step by step on a registered     *)
(*                 tenant connection.                                      *)
(*   SpecConcurrent      the middleware with all workers serving at once.  *)
(*   SpecShops           Shop saves by the three callers, with the         *)
(*                       post_save provisioning and its failures.          *)
(*   SpecSubdomains      sequences of Shop creations with blank subdomains.*)
(*   SpecShopsConcurrent two workers saving head offices at once.          *)
(*   SpecTenant          the creation of new Tenants and their databases.  *)
(*   SpecResolver        the Host Resolver applied to bounded host names.  *)
(*   SpecAuth            ShopUserBackend.authenticate with its attempt     *)
(*                       counters, under every tenant context.             *)
(***************************************************************************)
EXTENDS Integers, Sequences, FiniteSets, TLC

VARIABLES
    shops,        \* Tenant Directory: the stored Shop records
    settingsDB,   \* settings.DATABASES: alias -> connection descriptor
    connDB,       \* connections.databases: alias -> connection descriptor
    ctx,          \* _thread_locals of each worker: tenant and shop_schema
    liveSP,       \* search_path of each worker's live connection per tenant
    pc,           \* each worker's position in TenantMiddleware.__call__
    req,          \* the request a worker has just received
    loc,          \* the locals of __call__: tenant, shop_subdomain, headers, shop_schema
    route,        \* how the current request was dispatched
    outcome,      \* how the current request ended
    calls,        \* invocations of get_response during the current request
    lookups,      \* Tenant Directory lookups during the current request
    regWrites,    \* Connection Registry writes during the current request
    obs,          \* what the handler last read from the Context Store
    settingsApps, \* settings.SHARED_APPS, TENANT_APPS and SHOP_APPS
    answer,       \* the Database Router's last answer in the current context
    prov,         \* each worker's run of create_shop_schema: position and locals
    tenantDB,     \* each tenant database: its schemas and the tables in them
    creation,     \* each worker's Shop save: the instance, the caller, the position
    tenantProv,   \* the creation of a new Tenant: record, database, position
    parsed,       \* the Host Resolver's last call: the host and the pair returned
    auth          \* the login-attempt cache and ShopUserBackend's last call

vars == <<shops, settingsDB, connDB, ctx, liveSP, pc, req, loc, route, outcome,
          calls, lookups, regWrites, obs, settingsApps, answer, prov, tenantDB,
          creation, tenantProv, parsed, auth>>

\* The variables of the middleware run.
middlewareVars == <<pc, req, loc, route, outcome, calls, lookups, regWrites, obs>>

\* The variables only the Database Router's callers change.
routerVars == <<settingsApps, answer>>

\* The variables only create_shop_schema changes.
provisionVars == <<prov, tenantDB>>

\* The variables only the writers of the Tenant Directory change.
directoryVars == <<creation, tenantProv>>

\* The variables only the Host Resolver's callers change.
resolverVars == <<parsed>>

\* The variables only ShopUserBackend changes.
authVars == <<auth>>

\* ---------------------------------------------------------------- bounds

\* Ids of the Tenant records in the Tenant Directory.
TenantIds == {1, 2}

\* The worker threads of the process; under Spec one of them serves requests
\* one after another, under SpecConcurrent all of them serve at once.
Workers == {1, 2}
SequentialWorkers == {1}

\* Python's None for string-valued names, and "no Tenant object".
None == "None"
NoTenant == 0

\* ------------------------------------------------------ Tenant Directory

\* Tenant.subdomain of the stored Tenant records (unique per tenant).
TenantSubdomain(t) ==
    CASE t = 1 -> "acme"
      [] t = 2 -> "beta"
      [] OTHER -> "gamma"

\* Tenant.db_name of the stored Tenant records.
TenantDbName(t) ==
    CASE t = 1 -> "acme_db"
      [] t = 2 -> "beta_db"
      [] OTHER -> "gamma_db"

\* Tenant.db_alias: f"tenant_{self.id}".
db_alias(t) == <<"tenant_", t>>

\* The control database alias "default".
DefaultAlias == <<"default", 0>>

\* The Shop records stored at start: tenant 1 has a head office and a second
\* shop, the other tenants have no shop at all.
InitialShops ==
    { [id |-> 1, tenant |-> 1, name |-> "Main", schema_name |-> "acme_main",
       subdomain |-> "main", is_head_office |-> TRUE],
      [id |-> 2, tenant |-> 1, name |-> "Shop 1", schema_name |-> "acme_shop1",
       subdomain |-> "shop1", is_head_office |-> FALSE] }

\* self.pk of a Shop instance that is not stored yet, and a blank subdomain.
NoPk == 0
Blank == ""

\* No Shop instance.
NoShop ==
    [id |-> NoPk, tenant |-> NoTenant, name |-> None, schema_name |-> None,
     subdomain |-> Blank, is_head_office |-> FALSE]

\* ------------------------------------------------------------- requests

PathRoot == <<"/">>
PathAdmin == <<"/", "a", "d", "m", "i", "n", "/">>
PathAdminLike == <<"/", "a", "d", "m", "i", "n", "i", "s", "t", "r", "a", "t", "o", "r">>
PathFavicon == <<"/", "f", "a", "v", "i", "c", "o", "n", ".", "i", "c", "o">>
PathTenants == <<"/", "a", "p", "i", "/", "t", "e", "n", "a", "n", "t", "s", "/">>
PathTenantsBare == <<"/", "a", "p", "i", "/", "t", "e", "n", "a", "n", "t", "s">>
PathCurrentTenant == <<"/", "a", "p", "i", "/", "c", "u", "r", "r", "e", "n", "t", "_", "t", "e", "n", "a", "n", "t", "/">>
PathLogin == <<"/", "a", "p", "i", "/", "l", "o", "g", "i", "n", "/">>
PathShops == <<"/", "a", "p", "i", "/", "s", "h", "o", "p", "s", "/">>

PrefixAdmin == <<"/", "a", "d", "m", "i", "n">>
PrefixFavicon == <<"/", "f", "a", "v", "i", "c", "o", "n", ".", "i", "c", "o">>
PrefixTenants == <<"/", "a", "p", "i", "/", "t", "e", "n", "a", "n", "t", "s", "/">>
PrefixCurrentTenant == <<"/", "a", "p", "i", "/", "c", "u", "r", "r", "e", "n", "t", "_", "t", "e", "n", "a", "n", "t", "/">>
PrefixLogin == <<"/", "a", "p", "i", "/", "l", "o", "g", "i", "n", "/">>
PrefixApi == <<"/", "a", "p", "i", "/">>

\* str.startswith
startswith(s, prefix) ==
    /\ Len(prefix) <= Len(s)
    /\ SubSeq(s, 1, Len(prefix)) = prefix

\* public_paths of TenantMiddleware.__call__
public_paths == {PrefixAdmin, PrefixFavicon, PrefixTenants, PrefixCurrentTenant}

\* A widened allow-list without the login guard (mutant of IsPublicPath).
IsPublicPathWide(path) ==
    path = PathRoot \/ \E p \in public_paths \cup {PrefixApi} : startswith(path, p)

\* The bypass condition of TenantMiddleware.__call__.
IsPublicPath(path) ==
    /\ path = PathRoot \/ \E p \in public_paths : startswith(path, p)
    /\ ~startswith(path, PrefixLogin)

\* host.split(":")[0] on the last label of the host (the only one that can
\* carry a port).
StripPortLabel(label) ==
    CASE label = "localhost:8000" -> "localhost"
      [] label = "com:8000" -> "com"
      [] label = "LOCALHOST:8000" -> "LOCALHOST"
      [] OTHER -> label

\* request.get_host().split(":")[0].split("."), on a host given by its labels.
HostParts(host) ==
    [i \in 1..Len(host) |-> IF i = Len(host) THEN StripPortLabel(host[i]) ELSE host[i]]

\* A resolver that takes the first label as tenant whenever there is a
\* subdomain (mutant of _parse_subdomains: the pre-shop-subdomain rule).
ParseFirstLabel(parts) ==
    IF Len(parts) > 2 \/ (Len(parts) = 2 /\ parts[2] = "localhost")
    THEN <<parts[1], None>>
    ELSE <<None, None>>

\* TenantMiddleware._parse_subdomains: <<tenant_subdomain, shop_subdomain>>.
_parse_subdomains(parts) ==
    IF \E i \in 1..Len(parts) : parts[i] = "localhost"
    THEN CASE Len(parts) = 1 -> <<None, None>>
           [] Len(parts) = 2 -> <<parts[1], None>>
           [] OTHER -> <<parts[Len(parts) - 1], parts[1]>>
    ELSE CASE Len(parts) <= 2 -> <<None, None>>
           [] Len(parts) = 3 -> <<parts[1], None>>
           [] OTHER -> <<parts[Len(parts) - 2], parts[1]>>

\* The hosts requests arrive with.
Hosts ==
    { <<"localhost">>,
      <<"ghost", "localhost">>,
      <<"acme", "localhost:8000">>,
      <<"shop1", "acme", "localhost">>,
      <<"nosuch", "acme", "localhost">>,
      <<"beta", "example", "com">> }

\* The requests a worker may receive: path, host, the X-Tenant and
\* X-Shop-Schema headers (None when absent) and whether request.user is an
\* authenticated ShopUser with a shop_id.
BypassProbePaths ==
    {PathRoot, PathAdmin, PathAdminLike, PathFavicon, PathTenants, PathCurrentTenant}

Requests ==
    { [path |-> p, host |-> <<"localhost">>, x_tenant |-> None,
       x_shop_schema |-> None, authenticated |-> FALSE] : p \in BypassProbePaths }
    \cup
    { [path |-> p, host |-> h, x_tenant |-> None, x_shop_schema |-> None,
       authenticated |-> FALSE] : p \in {PathLogin, PathTenantsBare}, h \in Hosts }
    \cup
    { [path |-> PathShops, host |-> <<"localhost">>, x_tenant |-> x,
       x_shop_schema |-> None, authenticated |-> FALSE] : x \in {"beta", "ghost"} }
    \cup
    { [path |-> PathShops, host |-> <<"acme", "localhost:8000">>, x_tenant |-> None,
       x_shop_schema |-> s, authenticated |-> a] :
         s \in {None, "acme_shop1"}, a \in BOOLEAN }
    \cup
    { [path |-> PathShops, host |-> <<"localhost">>, x_tenant |-> "beta",
       x_shop_schema |-> "acme_shop1", authenticated |-> FALSE] }

NoRequest ==
    [path |-> <<>>, host |-> <<>>, x_tenant |-> None, x_shop_schema |-> None,
     authenticated |-> FALSE]

NoLocals ==
    [tenant |-> NoTenant, shop_subdomain |-> None, x_shop_schema |-> None,
     authenticated |-> FALSE, shop_schema |-> None]

\* ------------------------------------------------------- Context Store

\* _thread_locals without attributes.
EmptyCtx == [tenant |-> NoTenant, shop_schema |-> None]

\* A process-wide store: the write lands in every worker's view (mutant of
\* set_current_tenant).
set_current_tenant_global(c, w, t) ==
    [x \in DOMAIN c |-> [c[x] EXCEPT !.tenant = t]]

\* tenant_context.set_current_tenant, on worker w's thread-local.
set_current_tenant(c, w, t) == [c EXCEPT ![w].tenant = t]

\* tenant_context.get_current_tenant (None is NoTenant).
get_current_tenant(c, w) == c[w].tenant

\* tenant_context.clear_current_tenant
clear_current_tenant(c, w) == [c EXCEPT ![w].tenant = NoTenant]

\* tenant_context.set_current_shop
set_current_shop(c, w, s) == [c EXCEPT ![w].shop_schema = s]

\* tenant_context.get_current_shop
get_current_shop(c, w) == c[w].shop_schema

\* tenant_context.clear_current_shop
clear_current_shop(c, w) == [c EXCEPT ![w].shop_schema = None]

\* tenant_context.clear_current
clear_current(c, w) == clear_current_shop(clear_current_tenant(c, w), w)

\* --------------------------------------------------- Connection Registry

\* "CONN_MAX_AGE" of the descriptor register_tenant_connection builds.
RegisterConnMaxAge == 60

\* A dict as a set of <<key, value>> pairs; the empty dict.
EmptyDict == {}

\* A registration that rebuilds the table with the one entry, dropping the
\* others (mutant of DictSet).
DictSetOnly(table, alias, value) == [a \in {alias} |-> value]

\* A descriptor built from the first tenant's data whatever the tenant
\* (mutant of db_config).
db_config_any(t) ==
    [NAME |-> TenantDbName(1), CONN_MAX_AGE |-> RegisterConnMaxAge,
     has_OPTIONS |-> TRUE, OPTIONS |-> EmptyDict]

\* db_config of register_tenant_connection (the fields that vary or are
\* read elsewhere): "OPTIONS" is present and empty.
db_config(t) ==
    [NAME |-> TenantDbName(t), CONN_MAX_AGE |-> RegisterConnMaxAge,
     has_OPTIONS |-> TRUE, OPTIONS |-> EmptyDict]

\* table[alias] = value on a dict keyed by alias.
DictSet(table, alias, value) ==
    [a \in DOMAIN table \cup {alias} |-> IF a = alias THEN value ELSE table[a]]

\* ------------------------------------------------------------ middleware

\* Tenant.objects.get(subdomain=tenant_key): the matching ids (at most one).
TenantsBySubdomain(key) == {t \in TenantIds : TenantSubdomain(t) = key}

\* request.headers.get("X-Tenant") or tenant_key
TenantKey(r) ==
    IF r.x_tenant # None THEN r.x_tenant ELSE _parse_subdomains(HostParts(r.host))[1]

\* hasattr(request.user, 'shop') and request.user.shop: ShopUser stores
\* shop_id and get_shop() and has no attribute named shop.
UserShopSchema(l) == None

\* ShopUser.get_shop() of the authenticated users of the requests: their
\* shop_id names the tenant's first shop that is not the head office.
get_shop(l) ==
    LET assigned == { s \in shops : s.tenant = l.tenant /\ ~s.is_head_office } IN
    IF l.authenticated /\ assigned # {}
    THEN (CHOOSE s \in assigned : \A o \in assigned : s.id <= o.id).schema_name
    ELSE None

\* Shop.objects.get(tenant=tenant, subdomain=shop_subdomain): matching records.
ShopsBySubdomain(t, sub) == {s \in shops : s.tenant = t /\ s.subdomain = sub}

\* tenant.shops.get(is_head_office=True): matching records.
HeadOffices(t) == {s \in shops : s.tenant = t /\ s.is_head_office}

\* The schema of the one record of a non-empty result set.
SchemaOf(S) == (CHOOSE s \in S : TRUE).schema_name

\* Priorities 1 and 2: the user's shop, then the X-Shop-Schema header.
SchemaBeforeLookups(l) ==
    IF UserShopSchema(l) # None THEN UserShopSchema(l) ELSE l.x_shop_schema

\* Whether the shop-subdomain query (priority 3) is issued.
SubdomainQueried(l) == SchemaBeforeLookups(l) = None /\ l.shop_subdomain # None

\* shop_schema after priority 3.
SchemaAfterSubdomain(l) ==
    IF SubdomainQueried(l) /\ ShopsBySubdomain(l.tenant, l.shop_subdomain) # {}
    THEN SchemaOf(ShopsBySubdomain(l.tenant, l.shop_subdomain))
    ELSE SchemaBeforeLookups(l)

\* Whether the head-office query (priority 4) is issued.
HeadOfficeQueried(l) == SchemaAfterSubdomain(l) = None

\* The shop schema chosen by lines 173-205 when no query raises.
ResolvedShopSchema(l) ==
    IF ~HeadOfficeQueried(l) THEN SchemaAfterSubdomain(l)
    ELSE IF HeadOffices(l.tenant) # {} THEN SchemaOf(HeadOffices(l.tenant))
    ELSE "public"

\* ------------------------------------------------------ Database Router

\* An application module as listed in the settings: its dotted path split
\* at the dots (<<"apps", "debtors">> is 'apps.debtors', <<"tenancy">> is
\* 'tenancy').
SharedCore ==
    { <<"tenancy">>, <<"django", "contrib", "contenttypes">>,
      <<"django", "contrib", "sessions">> }
SharedEntries == { <<"django", "contrib", "auth">>, <<"shop_users">> }
TenantEntries == { <<"shop_users">>, <<"stock_control">>, <<"apps", "cash_book">> }
ShopEntries == { <<"shop_users">>, <<"creditors">>, <<"apps", "debtors">> }

\* The module-list configurations: the Tenant and Shop directory (tenancy),
\* contenttypes and sessions are always shared and nothing else; every other
\* module may or may not be listed, by its label or by its dotted path.
AppConfigs ==
    { [SHARED_APPS |-> sh \cup SharedCore, TENANT_APPS |-> te, SHOP_APPS |-> so] :
        sh \in SUBSET SharedEntries, te \in SUBSET TenantEntries,
        so \in SUBSET ShopEntries }

\* The configuration the middleware runs under.
DeployedApps ==
    [SHARED_APPS |-> SharedEntries \cup SharedCore,
     TENANT_APPS |-> { <<"shop_users">> },
     SHOP_APPS |-> { <<"apps", "debtors">>, <<"creditors">> }]

\* model._meta.app_label of the models the router is asked about.
AppLabels ==
    { "auth", "contenttypes", "sessions", "shop_users", "tenancy", "stock_control",
      "cash_book", "creditors", "debtors", "unlisted" }

\* The database aliases the router is asked about.
Aliases == { DefaultAlias } \cup { db_alias(t) : t \in TenantIds }

\* [app.split('.')[-1] for app in apps]
LastLabels(entries) == { e[Len(e)] : e \in entries }

\* app_label in apps: the label equals a whole entry.
ListedAsIs(app_label, entries) == <<app_label>> \in entries

\* The modules allowed on both the control database and tenant databases.
CrossSchemaLabels == { "auth", "contenttypes", "shop_users" }

\* TenantDatabaseRouter.db_for_read
db_for_read(tenant, app_label) ==
    IF tenant # NoTenant /\ ListedAsIs(app_label, settingsApps.TENANT_APPS)
    THEN db_alias(tenant)
    ELSE DefaultAlias

\* TenantDatabaseRouter.db_for_write
db_for_write(tenant, app_label) ==
    IF tenant # NoTenant /\ ListedAsIs(app_label, settingsApps.TENANT_APPS)
    THEN db_alias(tenant)
    ELSE DefaultAlias

\* allow_migrate testing the labels against the raw entries, as db_for_read
\* does (mutant of allow_migrate).
allow_migrate_unsplit(tenant, db, app_label) ==
    IF ListedAsIs(app_label, settingsApps.SHOP_APPS)
         \/ ListedAsIs(app_label, settingsApps.TENANT_APPS)
    THEN tenant # NoTenant /\ db = db_alias(tenant)
    ELSE IF app_label \in LastLabels(settingsApps.SHARED_APPS)
              /\ app_label \in CrossSchemaLabels
              /\ tenant # NoTenant /\ db = db_alias(tenant)
    THEN TRUE
    ELSE db = DefaultAlias

\* allow_migrate without the cross-schema exception (mutant of allow_migrate).
allow_migrate_no_exception(tenant, db, app_label) ==
    IF app_label \in LastLabels(settingsApps.SHOP_APPS)
         \/ app_label \in LastLabels(settingsApps.TENANT_APPS)
    THEN tenant # NoTenant /\ db = db_alias(tenant)
    ELSE db = DefaultAlias

\* TenantDatabaseRouter.allow_migrate
allow_migrate(tenant, db, app_label) ==
    IF app_label \in LastLabels(settingsApps.SHOP_APPS)
    THEN tenant # NoTenant /\ db = db_alias(tenant)
    ELSE IF app_label \in LastLabels(settingsApps.TENANT_APPS)
    THEN tenant # NoTenant /\ db = db_alias(tenant)
    ELSE IF app_label \in LastLabels(settingsApps.SHARED_APPS)
    THEN IF app_label \in CrossSchemaLabels /\ tenant # NoTenant /\ db = db_alias(tenant)
         THEN TRUE
         ELSE db = DefaultAlias
    ELSE db = DefaultAlias

\* The methods TenantDatabaseRouter defines.
RouterMethods == { "db_for_read", "db_for_write", "allow_migrate" }

\* The router's verdict on a relation between two records loaded from
\* obj1_db and obj2_db: the class defines no allow_relation, it gives none.
allow_relation(obj1_db, obj2_db) ==
    IF "allow_relation" \in RouterMethods
    THEN (IF obj1_db = obj2_db THEN "True" ELSE "False")
    ELSE None

NoAnswer ==
    [op |-> "none", tenant |-> NoTenant, db |-> DefaultAlias, db2 |-> DefaultAlias,
     app_label |-> None, allowed |-> FALSE, read |-> DefaultAlias,
     write |-> DefaultAlias, verdict |-> None]

\* ------------------------------------------------------------------ Spec

\* What a read of the Context Store inside the handler returns.
NoRead == [tenant |-> NoTenant, shop_schema |-> "unread"]

\* No live connection of a worker to a tenant database.
Closed == <<>>

\* A worker that is not inside create_shop_schema and has not been.
NoProvision ==
    [pc |-> "idle", tenant |-> NoTenant, schema_name |-> None,
     original_options |-> EmptyDict, installed |-> FALSE, failed |-> FALSE,
     swallowed |-> FALSE, before |-> EmptyDict, entered_with |-> EmptyCtx,
     result |-> "none"]

\* A tenant database in which no shop schema has been created.
EmptyDatabase == [schemas |-> {}, tables |-> {}, recorded |-> {}]

\* A worker that is not saving a Shop and has not been.
NoCreation ==
    [pc |-> "idle", caller |-> None, instance |-> NoShop, created |-> FALSE,
     schema_failed |-> FALSE, result |-> "none"]

\* No Tenant is being created and none has been.
NoTenantProvision ==
    [pc |-> "idle", caller |-> None, signal |-> FALSE, tenant |-> NoTenant,
     stored |-> {}, databases |-> {}, migrated |-> {}, tables |-> {},
     failed |-> "none",
     result |-> "none"]

\* The stored ShopUser records: two tenants have a user of the same
\* username (unique_together is on username and tenant_id), superusers have
\* no tenant; password stands for the stored hash and what it matches.
ShopUsers ==
    { [id |-> 1, username |-> "alice", tenant_id |-> 1, is_superuser |-> FALSE,
       is_active |-> TRUE, password |-> "a1"],
      [id |-> 2, username |-> "alice", tenant_id |-> 2, is_superuser |-> FALSE,
       is_active |-> TRUE, password |-> "a2"],
      [id |-> 3, username |-> "root", tenant_id |-> NoTenant, is_superuser |-> TRUE,
       is_active |-> TRUE, password |-> "r"],
      [id |-> 4, username |-> "old", tenant_id |-> NoTenant, is_superuser |-> TRUE,
       is_active |-> FALSE, password |-> "o"] }

\* The usernames and passwords submitted to the backend.
Usernames == { u.username : u \in ShopUsers }
Passwords == { u.password : u \in ShopUsers } \cup { "wrong" }

\* ShopUserBackend.MAX_LOGIN_ATTEMPTS
MAX_LOGIN_ATTEMPTS == 5

\* The backend has not been called and the cache holds no attempts.
NoAuth ==
    [attempts |-> [u \in Usernames |-> 0],
     last |-> [username |-> None, password |-> None, tenant |-> NoTenant,
               locked |-> FALSE, raised |-> FALSE, user |-> NoPk]]

\* The Host Resolver has not been called.
NoParse == [raw |-> <<>>, host |-> <<>>, result |-> <<None, None>>]

Init ==
    /\ shops = InitialShops
    /\ settingsDB = <<>>
    /\ connDB = <<>>
    /\ ctx = [w \in Workers |-> EmptyCtx]
    /\ liveSP = [w \in Workers |-> [t \in TenantIds |-> Closed]]
    /\ pc = [w \in Workers |-> "idle"]
    /\ req = [w \in Workers |-> NoRequest]
    /\ loc = [w \in Workers |-> NoLocals]
    /\ route = [w \in Workers |-> "none"]
    /\ outcome = [w \in Workers |-> "none"]
    /\ calls = [w \in Workers |-> 0]
    /\ lookups = [w \in Workers |-> 0]
    /\ regWrites = [w \in Workers |-> 0]
    /\ obs = [w \in Workers |-> NoRead]
    /\ settingsApps = DeployedApps
    /\ answer = NoAnswer
    /\ prov = [w \in Workers |-> NoProvision]
    /\ tenantDB = [t \in TenantIds |-> EmptyDatabase]
    /\ creation = [w \in Workers |-> NoCreation]
    /\ tenantProv = NoTenantProvision
    /\ parsed = NoParse
    /\ auth = NoAuth

\* The end of __call__ on worker w: its locals die, the outcome is kept.
Finish(w, how) ==
    /\ pc' = [pc EXCEPT ![w] = "done"]
    /\ outcome' = [outcome EXCEPT ![w] = how]
    /\ req' = [req EXCEPT ![w] = NoRequest]
    /\ loc' = [loc EXCEPT ![w] = NoLocals]
    /\ obs' = [obs EXCEPT ![w] = NoRead]

\* A worker that is free receives the next request: __call__ is entered.
Receive(w, r) ==
    /\ pc[w] \in {"idle", "done"}
    /\ pc' = [pc EXCEPT ![w] = "start"]
    /\ req' = [req EXCEPT ![w] = r]
    /\ loc' = [loc EXCEPT ![w] = NoLocals]
    /\ route' = [route EXCEPT ![w] = "none"]
    /\ outcome' = [outcome EXCEPT ![w] = "none"]
    /\ calls' = [calls EXCEPT ![w] = 0]
    /\ lookups' = [lookups EXCEPT ![w] = 0]
    /\ regWrites' = [regWrites EXCEPT ![w] = 0]
    /\ obs' = [obs EXCEPT ![w] = NoRead]
    /\ UNCHANGED <<shops, settingsDB, connDB, ctx, liveSP>>

\* Lines 128-130: a public path skips all tenant logic.
Bypass(w) ==
    /\ pc[w] = "start"
    /\ IsPublicPath(req[w].path)
    /\ pc' = [pc EXCEPT ![w] = "call"]
    /\ route' = [route EXCEPT ![w] = "bypass"]
    /\ req' = [req EXCEPT ![w] = NoRequest]
    /\ UNCHANGED <<shops, settingsDB, connDB, ctx, liveSP, loc, outcome, calls,
                   lookups, regWrites, obs>>

\* Lines 139-149: no tenant key from the header or the host: 403.
RejectUnspecified(w) ==
    /\ pc[w] = "start"
    /\ ~IsPublicPath(req[w].path)
    /\ TenantKey(req[w]) = None
    /\ route' = [route EXCEPT ![w] = "rejected"]
    /\ Finish(w, "forbidden_unspecified")
    /\ UNCHANGED <<shops, settingsDB, connDB, ctx, liveSP, calls, lookups,
                   regWrites>>

\* Lines 152-158: the tenant key matches no Tenant record: 403.
RejectInvalid(w) ==
    /\ pc[w] = "start"
    /\ ~IsPublicPath(req[w].path)
    /\ TenantKey(req[w]) # None
    /\ TenantsBySubdomain(TenantKey(req[w])) = {}
    /\ lookups' = [lookups EXCEPT ![w] = @ + 1]
    /\ route' = [route EXCEPT ![w] = "rejected"]
    /\ Finish(w, "forbidden_invalid")
    /\ UNCHANGED <<shops, settingsDB, connDB, ctx, liveSP, calls, regWrites>>

\* Lines 139-162: the tenant is resolved and stored in the Context Store.
Accept(w) ==
    /\ pc[w] = "start"
    /\ ~IsPublicPath(req[w].path)
    /\ TenantKey(req[w]) # None
    /\ \E t \in TenantsBySubdomain(TenantKey(req[w])) :
          /\ ctx' = set_current_tenant(ctx, w, t)
          /\ loc' = [loc EXCEPT ![w] =
                        [tenant |-> t,
                         shop_subdomain |-> _parse_subdomains(HostParts(req[w].host))[2],
                         x_shop_schema |-> req[w].x_shop_schema,
                         authenticated |-> req[w].authenticated,
                         shop_schema |-> None]]
    /\ lookups' = [lookups EXCEPT ![w] = @ + 1]
    /\ route' = [route EXCEPT ![w] = "tenant"]
    /\ pc' = [pc EXCEPT ![w] = "register"]
    /\ req' = [req EXCEPT ![w] = NoRequest]
    /\ UNCHANGED <<shops, settingsDB, connDB, liveSP, outcome, calls, regWrites, obs>>

\* utils.register_tenant_connection: one dict installed in both tables.
register_tenant_connection(t) ==
    /\ settingsDB' = DictSet(settingsDB, db_alias(t), db_config(t))
    /\ connDB' = DictSet(connDB, db_alias(t), db_config(t))

\* Lines 165-166 and utils.py line 26: db_config is built and stored in
\* settings.DATABASES.
Register(w) ==
    /\ pc[w] = "register"
    /\ settingsDB' = DictSet(settingsDB, db_alias(loc[w].tenant), db_config(loc[w].tenant))
    /\ regWrites' = [regWrites EXCEPT ![w] = @ + 1]
    /\ pc' = [pc EXCEPT ![w] = "register_conn"]
    /\ UNCHANGED <<shops, connDB, ctx, liveSP, req, loc, route, outcome, calls,
                   lookups, obs>>

\* utils.py line 28: the same descriptor is stored in connections.databases.
RegisterConnections(w) ==
    /\ pc[w] = "register_conn"
    /\ connDB' = DictSet(connDB, db_alias(loc[w].tenant), db_config(loc[w].tenant))
    /\ regWrites' = [regWrites EXCEPT ![w] = @ + 1]
    /\ pc' = [pc EXCEPT ![w] = "shop"]
    /\ UNCHANGED <<shops, settingsDB, ctx, liveSP, req, loc, route, outcome, calls,
                   lookups, obs>>

\* Lines 173-208: the shop schema is resolved and stored.
ResolveShop(w) ==
    /\ pc[w] = "shop"
    /\ loc' = [loc EXCEPT ![w].shop_schema = ResolvedShopSchema(loc[w])]
    /\ ctx' = set_current_shop(ctx, w, ResolvedShopSchema(loc[w]))
    /\ pc' = [pc EXCEPT ![w] = "search_path"]
    /\ UNCHANGED <<shops, settingsDB, connDB, liveSP, req, route, outcome, calls,
                   lookups, regWrites, obs>>

\* Lines 190 and 200: a Shop query raises something other than
\* Shop.DoesNotExist (the control database fails); nothing catches it.
ShopLookupRaises(w) ==
    /\ pc[w] = "shop"
    /\ SubdomainQueried(loc[w]) \/ HeadOfficeQueried(loc[w])
    /\ Finish(w, "raised_shop_lookup")
    /\ UNCHANGED <<shops, settingsDB, connDB, ctx, liveSP, route, calls, lookups,
                   regWrites>>

\* The handler is called without the SET search_path statement (mutant of
\* SetSearchPath).
SetSearchPathSkipped(w) ==
    /\ pc[w] = "search_path"
    /\ pc' = [pc EXCEPT ![w] = "call"]
    /\ UNCHANGED <<shops, settingsDB, connDB, ctx, liveSP, req, loc, route, outcome,
                   calls, lookups, regWrites, obs>>

\* Lines 211-216: SET search_path on the worker's connection to the tenant.
SetSearchPath(w) ==
    /\ pc[w] = "search_path"
    /\ liveSP' = [liveSP EXCEPT ![w][loc[w].tenant] = <<loc[w].shop_schema, "public">>]
    /\ pc' = [pc EXCEPT ![w] = "call"]
    /\ UNCHANGED <<shops, settingsDB, connDB, ctx, req, loc, route, outcome, calls,
                   lookups, regWrites, obs>>

\* Lines 212-215: the tenant database cannot be reached, conn.cursor() or
\* the SET statement raises; nothing catches it.
SearchPathRaises(w) ==
    /\ pc[w] = "search_path"
    /\ liveSP' = [liveSP EXCEPT ![w][loc[w].tenant] = Closed]
    /\ Finish(w, "raised_search_path")
    /\ UNCHANGED <<shops, settingsDB, connDB, ctx, route, calls, lookups,
                   regWrites>>

\* Lines 131 and 218: self.get_response(request) is entered.
GetResponse(w) ==
    /\ pc[w] = "call"
    /\ calls' = [calls EXCEPT ![w] = @ + 1]
    /\ pc' = [pc EXCEPT ![w] = "in_handler"]
    /\ UNCHANGED <<shops, settingsDB, connDB, ctx, liveSP, req, loc, route, outcome,
                   lookups, regWrites, obs>>

\* Handler code reads get_current_tenant() and get_current_shop().
HandlerReads(w) ==
    /\ pc[w] = "in_handler"
    /\ obs' = [obs EXCEPT ![w] = [tenant |-> get_current_tenant(ctx, w),
                                  shop_schema |-> get_current_shop(ctx, w)]]
    /\ UNCHANGED <<shops, settingsDB, connDB, ctx, liveSP, pc, req, loc, route,
                   outcome, calls, lookups, regWrites>>

\* Lines 131-133 and 218-220: get_response returns, clear_current() runs.
HandlerReturns(w) ==
    /\ pc[w] = "in_handler"
    /\ ctx' = clear_current(ctx, w)
    /\ Finish(w, "response")
    /\ UNCHANGED <<shops, settingsDB, connDB, liveSP, route, calls, lookups,
                   regWrites>>

\* Lines 131 and 218: get_response raises; the statement after it is skipped.
HandlerRaises(w) ==
    /\ pc[w] = "in_handler"
    /\ Finish(w, "raised_handler")
    /\ UNCHANGED <<shops, settingsDB, connDB, ctx, liveSP, route, calls, lookups,
                   regWrites>>

\* The requests that arrive while all workers serve at once.
ConcurrentRequests ==
    { r \in Requests :
        \/ r.path = PathRoot
        \/ r.path = PathLogin /\ r.host \in { <<"ghost", "localhost">>,
                                              <<"acme", "localhost:8000">>,
                                              <<"shop1", "acme", "localhost">> }
        \/ r.x_tenant = "beta" /\ r.x_shop_schema = None }

\* One step of worker w's middleware run.
MiddlewareStep(w) ==
        \/ Bypass(w)
        \/ RejectUnspecified(w)
        \/ RejectInvalid(w)
        \/ Accept(w)
        \/ Register(w)
        \/ RegisterConnections(w)
        \/ ResolveShop(w)
        \/ ShopLookupRaises(w)
        \/ SetSearchPath(w)
        \/ SearchPathRaises(w)
        \/ GetResponse(w)
        \/ HandlerReads(w)
        \/ HandlerReturns(w)
        \/ HandlerRaises(w)

Next ==
    /\ \E w \in SequentialWorkers :
          \/ \E r \in Requests : Receive(w, r)
          \/ MiddlewareStep(w)
    /\ UNCHANGED <<routerVars, provisionVars, directoryVars, resolverVars, authVars>>

Spec == Init /\ [][Next]_vars

NextConcurrent ==
    /\ \E w \in Workers :
          \/ \E r \in ConcurrentRequests : Receive(w, r)
          \/ MiddlewareStep(w)
    /\ UNCHANGED <<routerVars, provisionVars, directoryVars, resolverVars, authVars>>

SpecConcurrent == Init /\ [][NextConcurrent]_vars

\* C25: whenever the downstream handler of a worker is running, the Context
\* Store of that worker holds the tenant and shop schema resolved for the
\* current request, and neither a tenant nor a shop schema when the request
\* was bypassed, whatever requests the worker handled before.
C25_HandlerSeesOwnContext ==
    \A w \in SequentialWorkers :
        pc[w] = "in_handler" =>
            IF route[w] = "bypass"
            THEN /\ get_current_tenant(ctx, w) = NoTenant
                 /\ get_current_shop(ctx, w) = None
            ELSE /\ get_current_tenant(ctx, w) = loc[w].tenant
                 /\ get_current_shop(ctx, w) = loc[w].shop_schema

\* C28: the shop schema the middleware has stored in the Context Store and
\* applied as search path for an accepted request is 'public' or the
\* schema_name of a Shop of the request's resolved tenant.
C28_SchemaOfResolvedTenant ==
    \A w \in SequentialWorkers :
        pc[w] \in {"call", "in_handler"} /\ route[w] = "tenant" =>
            /\ get_current_shop(ctx, w) = loc[w].shop_schema
            /\ liveSP[w][loc[w].tenant] = <<loc[w].shop_schema, "public">>
            /\ \/ loc[w].shop_schema = "public"
               \/ \E s \in shops : /\ s.tenant = loc[w].tenant
                                   /\ s.schema_name = loc[w].shop_schema

\* ------------------------------------------------------------ SpecRouter

\* The thread the router is consulted on.
RouterThread == CHOOSE w \in SequentialWorkers : TRUE

InitRouter ==
    /\ shops = InitialShops
    /\ settingsDB = <<>>
    /\ connDB = <<>>
    /\ ctx = [w \in Workers |-> EmptyCtx]
    /\ liveSP = [w \in Workers |-> [t \in TenantIds |-> Closed]]
    /\ pc = [w \in Workers |-> "idle"]
    /\ req = [w \in Workers |-> NoRequest]
    /\ loc = [w \in Workers |-> NoLocals]
    /\ route = [w \in Workers |-> "none"]
    /\ outcome = [w \in Workers |-> "none"]
    /\ calls = [w \in Workers |-> 0]
    /\ lookups = [w \in Workers |-> 0]
    /\ regWrites = [w \in Workers |-> 0]
    /\ obs = [w \in Workers |-> NoRead]
    /\ settingsApps \in AppConfigs
    /\ answer = NoAnswer
    /\ prov = [w \in Workers |-> NoProvision]
    /\ tenantDB = [t \in TenantIds |-> EmptyDatabase]
    /\ creation = [w \in Workers |-> NoCreation]
    /\ tenantProv = NoTenantProvision
    /\ parsed = NoParse
    /\ auth = NoAuth

\* set_current_tenant(tenant) by the code running on the thread.
RouterSetTenant(t) ==
    /\ ctx' = set_current_tenant(ctx, RouterThread, t)
    /\ answer' = NoAnswer
    /\ UNCHANGED <<shops, settingsDB, connDB, liveSP, middlewareVars, settingsApps, provisionVars,
                   directoryVars, resolverVars, authVars>>

\* clear_current_tenant() by the code running on the thread.
RouterClearTenant ==
    /\ ctx' = clear_current_tenant(ctx, RouterThread)
    /\ answer' = NoAnswer
    /\ UNCHANGED <<shops, settingsDB, connDB, liveSP, middlewareVars, settingsApps, provisionVars,
                   directoryVars, resolverVars, authVars>>

\* The migration runner asks allow_migrate(db, app_label).
AllowMigrateCall(db, app_label) ==
    /\ answer' = [NoAnswer EXCEPT
                    !.op = "allow_migrate",
                    !.tenant = get_current_tenant(ctx, RouterThread),
                    !.db = db,
                    !.app_label = app_label,
                    !.allowed = allow_migrate(get_current_tenant(ctx, RouterThread),
                                              db, app_label)]
    /\ UNCHANGED <<shops, settingsDB, connDB, ctx, liveSP, middlewareVars, settingsApps, provisionVars,
                   directoryVars, resolverVars, authVars>>

\* The ORM asks db_for_read(model) and db_for_write(model).
DbForCall(app_label) ==
    /\ answer' = [NoAnswer EXCEPT
                    !.op = "db_for",
                    !.tenant = get_current_tenant(ctx, RouterThread),
                    !.app_label = app_label,
                    !.read = db_for_read(get_current_tenant(ctx, RouterThread), app_label),
                    !.write = db_for_write(get_current_tenant(ctx, RouterThread), app_label)]
    /\ UNCHANGED <<shops, settingsDB, connDB, ctx, liveSP, middlewareVars, settingsApps, provisionVars,
                   directoryVars, resolverVars, authVars>>

\* The ORM asks the router about a relation between two loaded records.
AllowRelationCall(obj1_db, obj2_db) ==
    /\ answer' = [NoAnswer EXCEPT
                    !.op = "allow_relation",
                    !.tenant = get_current_tenant(ctx, RouterThread),
                    !.db = obj1_db,
                    !.db2 = obj2_db,
                    !.verdict = allow_relation(obj1_db, obj2_db)]
    /\ UNCHANGED <<shops, settingsDB, connDB, ctx, liveSP, middlewareVars, settingsApps, provisionVars,
                   directoryVars, resolverVars, authVars>>

NextRouter ==
    \/ \E t \in TenantIds : RouterSetTenant(t)
    \/ RouterClearTenant
    \/ \E db \in Aliases, app_label \in AppLabels : AllowMigrateCall(db, app_label)
    \/ \E app_label \in AppLabels : DbForCall(app_label)
    \/ \E obj1_db, obj2_db \in Aliases : AllowRelationCall(obj1_db, obj2_db)

SpecRouter == InitRouter /\ [][NextRouter]_vars

\* --------------------------------------------------------- SpecProvision

\* The worker that provisions shop schemas.
ProvisionWorkers == {1}

\* schema_name of the shops being provisioned, each in its tenant's database.
ProvisionSchemasOf(t) ==
    IF t = 1 THEN { "acme_main", "acme_shop2" } ELSE { "beta_main" }
ProvisionSchemas == UNION { ProvisionSchemasOf(t) : t \in TenantIds }

\* d[key] = value on a dict held as a set of <<key, value>> pairs.
DictPut(d, key, value) == { p \in d : p[1] # key } \cup { <<key, value>> }

\* settings.DATABASES[alias].get('OPTIONS', {})
GetOptions(descriptor) ==
    IF descriptor.has_OPTIONS THEN descriptor.OPTIONS ELSE EmptyDict

\* The value of OPTIONS['options'] create_shop_schema installs:
\* -c search_path="<schema_name>",public
SearchPathOverride(schema_name) == <<schema_name, "public">>

\* The search_path of a connection opened with the given OPTIONS.
ConnectSearchPath(options) ==
    IF \E p \in options : p[1] = "options"
    THEN (CHOOSE p \in options : p[1] = "options")[2]
    ELSE <<"public">>

\* Lines 102-104: the labels create_shop_schema migrates.
migration_order ==
    { "contenttypes", "auth", "shop_users" }
      \cup LastLabels({ e \in settingsApps.SHOP_APPS : e[Len(e)] # "shop_users" })

\* Lines 17-27 of fake_all_shared_migrations: the labels whose migrations are
\* recorded as applied without running.
apps_to_fake ==
    (LastLabels(settingsApps.SHARED_APPS) \cup LastLabels(settingsApps.TENANT_APPS))
      \ CrossSchemaLabels

\* Line 55 and the entry of the outer try: create_shop_schema(tenant,
\* schema_name) is called on worker w.
ProvisionEnter(w, t, s) ==
    /\ prov[w].pc = "idle"
    /\ prov' = [prov EXCEPT ![w] =
                  [NoProvision EXCEPT
                     !.pc = "install", !.tenant = t, !.schema_name = s,
                     !.entered_with = ctx[w],
                     !.before = IF db_alias(t) \in DOMAIN settingsDB
                                THEN GetOptions(settingsDB[db_alias(t)])
                                ELSE EmptyDict]]
    /\ UNCHANGED <<shops, settingsDB, connDB, ctx, liveSP, middlewareVars,
                   routerVars, directoryVars, resolverVars, authVars, tenantDB>>

\* The end of create_shop_schema on worker w.
ProvisionExit(w, how) ==
    prov' = [prov EXCEPT ![w].pc = "idle", ![w].result = how]

\* Line 58 when the alias is not in settings.DATABASES: KeyError, caught and
\* re-raised at lines 175-179.
ProvisionUnregistered(w) ==
    /\ prov[w].pc = "install"
    /\ db_alias(prov[w].tenant) \notin DOMAIN settingsDB
    /\ ProvisionExit(w, "raised")
    /\ UNCHANGED <<shops, settingsDB, connDB, ctx, liveSP, middlewareVars,
                   routerVars, directoryVars, resolverVars, authVars, tenantDB>>

\* Lines 58-68: the original options are saved, the override is installed in
\* settings.DATABASES and connections.databases, the live connection is
\* closed.
InstallOverride(w) ==
    LET alias == db_alias(prov[w].tenant)
        original_options == GetOptions(settingsDB[alias])
        overridden == [settingsDB[alias] EXCEPT
                         !.has_OPTIONS = TRUE,
                         !.OPTIONS = DictPut(original_options, "options",
                                             SearchPathOverride(prov[w].schema_name))]
    IN  /\ prov[w].pc = "install"
        /\ alias \in DOMAIN settingsDB
        /\ settingsDB' = DictSet(settingsDB, alias, overridden)
        /\ connDB' = DictSet(connDB, alias, overridden)
        /\ liveSP' = [liveSP EXCEPT ![w][prov[w].tenant] = Closed]
        /\ prov' = [prov EXCEPT ![w].pc = "create_schema",
                                ![w].original_options = original_options,
                                ![w].installed = TRUE]
        /\ UNCHANGED <<shops, ctx, middlewareVars, routerVars, directoryVars, resolverVars, authVars, tenantDB>>

\* Lines 70-75: the connection is opened with the installed options and
\* CREATE SCHEMA IF NOT EXISTS runs.
CreateSchema(w) ==
    LET t == prov[w].tenant IN
    /\ prov[w].pc = "create_schema"
    /\ liveSP' = [liveSP EXCEPT ![w][t] = ConnectSearchPath(connDB[db_alias(t)].OPTIONS)]
    /\ tenantDB' = [tenantDB EXCEPT ![t].schemas = @ \cup { prov[w].schema_name }]
    /\ prov' = [prov EXCEPT ![w].pc = "create_table"]
    /\ UNCHANGED <<shops, settingsDB, connDB, ctx, middlewareVars, routerVars, directoryVars, resolverVars, authVars>>

\* Lines 70-75: the tenant database cannot be reached or refuses the
\* statement; the exception reaches lines 175-179, which re-raise it.
CreateSchemaRaises(w) ==
    /\ prov[w].pc = "create_schema"
    /\ ProvisionExit(w, "raised")
    /\ UNCHANGED <<shops, settingsDB, connDB, ctx, liveSP, middlewareVars,
                   routerVars, directoryVars, resolverVars, authVars, tenantDB>>

\* Lines 78-86: CREATE TABLE IF NOT EXISTS django_migrations, in the first
\* schema of the connection's search_path.
CreateMigrationsTable(w) ==
    LET t == prov[w].tenant IN
    /\ prov[w].pc = "create_table"
    /\ tenantDB' = [tenantDB EXCEPT
                      ![t].tables = @ \cup { <<liveSP[w][t][1], "django_migrations">> }]
    /\ prov' = [prov EXCEPT ![w].pc = "set_tenant"]
    /\ UNCHANGED <<shops, settingsDB, connDB, ctx, liveSP, middlewareVars, routerVars, directoryVars, resolverVars, authVars>>

\* Lines 78-86: the statement raises; the exception reaches lines 175-179.
CreateMigrationsTableRaises(w) ==
    /\ prov[w].pc = "create_table"
    /\ ProvisionExit(w, "raised")
    /\ UNCHANGED <<shops, settingsDB, connDB, ctx, liveSP, middlewareVars,
                   routerVars, directoryVars, resolverVars, authVars, tenantDB>>

\* Line 89: set_current_tenant(tenant); the inner try is entered.
ProvisionSetTenant(w) ==
    /\ prov[w].pc = "set_tenant"
    /\ ctx' = set_current_tenant(ctx, w, prov[w].tenant)
    /\ prov' = [prov EXCEPT ![w].pc = "fake"]
    /\ UNCHANGED <<shops, settingsDB, connDB, liveSP, middlewareVars, routerVars, directoryVars, resolverVars, authVars,
                   tenantDB>>

\* Lines 93-98 and fake_all_shared_migrations: the migrations of the shared
\* and tenant modules are recorded as applied in the first schema of the
\* search_path, without running.
FakeSharedMigrations(w) ==
    LET t == prov[w].tenant
        schema == liveSP[w][t][1]
    IN  /\ prov[w].pc = "fake"
        /\ tenantDB' = [tenantDB EXCEPT
                          ![t].recorded = @ \cup { <<schema, l>> : l \in apps_to_fake }]
        /\ prov' = [prov EXCEPT ![w].pc = "migrate"]
        /\ UNCHANGED <<shops, settingsDB, connDB, ctx, liveSP, middlewareVars,
                       routerVars, directoryVars, resolverVars, authVars>>

\* Lines 16-46 of fake_all_shared_migrations: the recorder or the loader
\* raises; `except Exception` prints a warning and the function returns.
FakeSharedMigrationsRaises(w) ==
    /\ prov[w].pc = "fake"
    /\ prov' = [prov EXCEPT ![w].pc = "migrate", ![w].swallowed = TRUE]
    /\ UNCHANGED <<shops, settingsDB, connDB, ctx, liveSP, middlewareVars,
                   routerVars, directoryVars, resolverVars, authVars, tenantDB>>

\* Lines 100-121: every label of migration_order whose migrations are not
\* recorded as applied and that the router allows on the alias is migrated
\* into the first schema of the search_path.
Migrate(w) ==
    LET t == prov[w].tenant
        schema == liveSP[w][t][1]
        migrated == { l \in migration_order :
                        /\ <<schema, l>> \notin tenantDB[t].recorded
                        /\ allow_migrate(get_current_tenant(ctx, w), db_alias(t), l) }
    IN  /\ prov[w].pc = "migrate"
        /\ tenantDB' = [tenantDB EXCEPT
                          ![t].tables = @ \cup { <<schema, l>> : l \in migrated }]
        /\ prov' = [prov EXCEPT ![w].pc = "verify"]
        /\ UNCHANGED <<shops, settingsDB, connDB, ctx, liveSP, middlewareVars,
                       routerVars, directoryVars, resolverVars, authVars>>

\* Lines 106-121: a migration raises something other than LookupError; the
\* finally block runs with the exception pending.
MigrateRaises(w) ==
    /\ prov[w].pc = "migrate"
    /\ prov' = [prov EXCEPT ![w].pc = "finally", ![w].failed = TRUE]
    /\ UNCHANGED <<shops, settingsDB, connDB, ctx, liveSP, middlewareVars,
                   routerVars, directoryVars, resolverVars, authVars, tenantDB>>

\* Lines 124-156: SET search_path TO the schema and list its tables.
VerifyTables(w) ==
    /\ prov[w].pc = "verify"
    /\ liveSP' = [liveSP EXCEPT ![w][prov[w].tenant] = <<prov[w].schema_name>>]
    /\ prov' = [prov EXCEPT ![w].pc = "finally"]
    /\ UNCHANGED <<shops, settingsDB, connDB, ctx, middlewareVars, routerVars, directoryVars, resolverVars, authVars,
                   tenantDB>>

\* Lines 124-156: a statement of the verification raises.
VerifyRaises(w) ==
    /\ prov[w].pc = "verify"
    /\ prov' = [prov EXCEPT ![w].pc = "finally", ![w].failed = TRUE]
    /\ UNCHANGED <<shops, settingsDB, connDB, ctx, liveSP, middlewareVars,
                   routerVars, directoryVars, resolverVars, authVars, tenantDB>>

\* Lines 158-173: clear_current_tenant(), the connection is closed, OPTIONS
\* is restored when the original was non-empty and popped otherwise, and
\* connections.databases is reloaded; then the function returns, or the
\* pending exception passes lines 175-179.
RestoreOptions(w) ==
    LET alias == db_alias(prov[w].tenant)
        restored == IF prov[w].original_options # EmptyDict
                    THEN [settingsDB[alias] EXCEPT
                            !.has_OPTIONS = TRUE,
                            !.OPTIONS = prov[w].original_options]
                    ELSE [settingsDB[alias] EXCEPT
                            !.has_OPTIONS = FALSE, !.OPTIONS = EmptyDict]
    IN  /\ prov[w].pc = "finally"
        /\ ctx' = clear_current_tenant(ctx, w)
        /\ liveSP' = [liveSP EXCEPT ![w][prov[w].tenant] = Closed]
        /\ settingsDB' = DictSet(settingsDB, alias, restored)
        /\ connDB' = DictSet(connDB, alias, restored)
        /\ ProvisionExit(w, IF prov[w].failed THEN "raised" ELSE "returned")
        /\ UNCHANGED <<shops, middlewareVars, routerVars, directoryVars, resolverVars, authVars, tenantDB>>

\* register_tenant_connection(tenant) by the caller before it provisions
\* (create_shop_schema_on_save, the middleware of the enclosing request);
\* the record of the previous run is dropped.
ProvisionRegister(w, t) ==
    /\ prov[w].pc = "idle"
    /\ register_tenant_connection(t)
    /\ prov' = [prov EXCEPT ![w] = NoProvision]
    /\ UNCHANGED <<shops, ctx, liveSP, middlewareVars, routerVars, directoryVars, resolverVars, authVars, tenantDB>>

\* The caller runs inside a request the middleware accepted for tenant t:
\* set_current_tenant(tenant) has run on its thread; the record of the
\* previous run is dropped.
ProvisionCallerTenant(w, t) ==
    /\ prov[w].pc = "idle"
    /\ ctx' = set_current_tenant(ctx, w, t)
    /\ prov' = [prov EXCEPT ![w] = NoProvision]
    /\ UNCHANGED <<shops, settingsDB, connDB, liveSP, middlewareVars, routerVars, directoryVars, resolverVars, authVars,
                   tenantDB>>

NextProvision ==
    \E w \in ProvisionWorkers :
        \/ \E t \in TenantIds : ProvisionRegister(w, t)
        \/ \E t \in TenantIds : ProvisionCallerTenant(w, t)
        \/ \E t \in TenantIds : \E s \in ProvisionSchemasOf(t) : ProvisionEnter(w, t, s)
        \/ ProvisionUnregistered(w)
        \/ InstallOverride(w)
        \/ CreateSchema(w)
        \/ CreateSchemaRaises(w)
        \/ CreateMigrationsTable(w)
        \/ CreateMigrationsTableRaises(w)
        \/ ProvisionSetTenant(w)
        \/ FakeSharedMigrations(w)
        \/ FakeSharedMigrationsRaises(w)
        \/ Migrate(w)
        \/ MigrateRaises(w)
        \/ VerifyTables(w)
        \/ VerifyRaises(w)
        \/ RestoreOptions(w)

SpecProvision == Init /\ [][NextProvision]_vars

\* C26: when create_shop_schema is called while a tenant is current in the
\* caller's Context Store, the same tenant is current and the current shop
\* schema is unchanged once the call has returned or raised.
C26_ContextAsFound ==
    \A w \in ProvisionWorkers :
        /\ prov[w].pc = "idle"
        /\ prov[w].result \in {"returned", "raised"}
        /\ prov[w].entered_with.tenant # NoTenant
        => /\ get_current_tenant(ctx, w) = prov[w].entered_with.tenant
           /\ get_current_shop(ctx, w) = prov[w].entered_with.shop_schema

\* C29: after create_shop_schema has returned normally, the entry under the
\* tenant's alias in settings.DATABASES and in connections.databases equals,
\* key for key, the entry register_tenant_connection installs, its empty
\* OPTIONS mapping included.
C29_EntryAsRegistered ==
    \A w \in ProvisionWorkers :
        (prov[w].pc = "idle" /\ prov[w].result = "returned")
        => /\ settingsDB[db_alias(prov[w].tenant)] = db_config(prov[w].tenant)
           /\ connDB[db_alias(prov[w].tenant)] = db_config(prov[w].tenant)

\* ------------------------------------------------------------- SpecShops

\* django.utils.text.slugify on the shop names of the model: lower case,
\* everything but letters, digits, hyphens and underscores removed.
slugify(name) ==
    CASE name \in { "Main", "main", "MAIN" } -> "main"
      [] name \in { "Main 1" } -> "main-1"
      [] OTHER -> ""

\* f"{original_subdomain}-{counter}"
Suffixed(original_subdomain, counter) ==
    CASE original_subdomain = "main" ->
            <<"main-1", "main-2", "main-3", "main-4", "main-5", "main-6",
              "main-7">>[counter]
      [] original_subdomain = "main-1" ->
            <<"main-1-1", "main-1-2", "main-1-3", "main-1-4", "main-1-5",
              "main-1-6", "main-1-7">>[counter]
      [] original_subdomain = "shop-new" ->
            <<"shop-new-1", "shop-new-2", "shop-new-3", "shop-new-4",
              "shop-new-5", "shop-new-6", "shop-new-7">>[counter]

\* Lines 208-213: slugify(self.name), or the fallback for an empty slug
\* (self.id is None while the shop is not stored).
original_subdomain(instance) ==
    IF slugify(instance.name) # "" THEN slugify(instance.name)
    ELSE IF instance.id # NoPk THEN "shop-id"
    ELSE "shop-new"

\* The subdomain without a counter for every shop (mutant of
\* FirstFreeSubdomain: the rule before the uniqueness loop was added).
FirstFreeSubdomainUnchecked(original, taken) == original

\* Lines 215-221: the first of original, original-1, original-2, ... that no
\* other Shop of the tenant has.
FirstFreeSubdomain(original, taken) ==
    LET subdomain(counter) ==
            IF counter = 0 THEN original ELSE Suffixed(original, counter)
        counter == CHOOSE c \in 0..Cardinality(taken) :
                       /\ subdomain(c) \notin taken
                       /\ \A d \in 0..(c - 1) : subdomain(d) \in taken
    IN subdomain(counter)

\* Shop.objects.filter(tenant=self.tenant).exclude(pk=self.pk): subdomains.
SubdomainsOfOthers(instance) ==
    { s.subdomain : s \in { o \in shops : o.tenant = instance.tenant /\ o.id # instance.id } }

\* The table accepts any number of head offices per tenant (mutant of
\* unique_head_office_per_tenant).
no_head_office_constraint(S) == TRUE

\* UniqueConstraint unique_head_office_per_tenant
unique_head_office_per_tenant(S) ==
    \A a, b \in S :
        (a.tenant = b.tenant /\ a.is_head_office /\ b.is_head_office) => a.id = b.id

\* UniqueConstraint unique_subdomain_per_tenant
unique_subdomain_per_tenant(S) ==
    \A a, b \in S : (a.tenant = b.tenant /\ a.subdomain = b.subdomain) => a.id = b.id

\* schema_name = CharField(unique=True)
unique_schema_name(S) ==
    \A a, b \in S : a.schema_name = b.schema_name => a.id = b.id

\* The id the database gives the next inserted Shop.
NextShopId ==
    1 + (CHOOSE m \in { s.id : s \in shops } \cup {0} :
            \A s \in shops : s.id <= m)

\* New Shop instances with a blank subdomain: three names with one slug, a
\* name whose slug is that slug with a counter, two names with an empty slug.
BlankDrafts ==
    { [id |-> NoPk, tenant |-> 2, name |-> "Main", schema_name |-> "beta_main",
       subdomain |-> Blank, is_head_office |-> TRUE],
      [id |-> NoPk, tenant |-> 2, name |-> "main", schema_name |-> "beta_main2",
       subdomain |-> Blank, is_head_office |-> TRUE],
      [id |-> NoPk, tenant |-> 2, name |-> "MAIN", schema_name |-> "beta_main3",
       subdomain |-> Blank, is_head_office |-> FALSE],
      [id |-> NoPk, tenant |-> 2, name |-> "Main 1", schema_name |-> "beta_main_1",
       subdomain |-> Blank, is_head_office |-> FALSE],
      [id |-> NoPk, tenant |-> 2, name |-> "!!!", schema_name |-> "beta_x",
       subdomain |-> Blank, is_head_office |-> FALSE],
      [id |-> NoPk, tenant |-> 2, name |-> "???", schema_name |-> "beta_y",
       subdomain |-> Blank, is_head_office |-> FALSE] }

\* The new Shop instances of SpecShops and SpecShopsConcurrent: two head
\* offices for one tenant.
ShopDrafts == { d \in BlankDrafts : d.is_head_office }

\* Who saves a Shop: Shop.objects.create (TenantSerializer.create, a shell),
\* ShopSerializer.create, ShopAdmin.save_model.
Callers == { "orm", "serializer", "admin" }

\* The instance that caller is about to save: a new Shop.
BeginCreate(w, caller, draft) ==
    /\ creation[w].pc \in {"idle", "done"}
    /\ prov[w].pc = "idle"
    /\ caller = "serializer" => get_current_tenant(ctx, w) = draft.tenant
    /\ creation' = [creation EXCEPT ![w] =
                      [NoCreation EXCEPT !.pc = "demote", !.caller = caller,
                                         !.instance = draft]]
    /\ UNCHANGED <<shops, settingsDB, connDB, ctx, liveSP, middlewareVars, routerVars,
                   provisionVars, tenantProv, resolverVars, authVars>>

\* A stored Shop is loaded, made the head office or not, and saved (the admin
\* change form, a shell).
BeginUpdate(w, caller, stored, head) ==
    /\ creation[w].pc \in {"idle", "done"}
    /\ prov[w].pc = "idle"
    /\ stored \in shops
    /\ creation' = [creation EXCEPT ![w] =
                      [NoCreation EXCEPT !.pc = "demote", !.caller = caller,
                                         !.instance = [stored EXCEPT !.is_head_office = head]]]
    /\ UNCHANGED <<shops, settingsDB, connDB, ctx, liveSP, middlewareVars, routerVars,
                   provisionVars, tenantProv, resolverVars, authVars>>

\* ShopSerializer.create lines 84-86: no tenant in the Context Store.
SerializerRejects(w) ==
    /\ creation[w].pc \in {"idle", "done"}
    /\ prov[w].pc = "idle"
    /\ get_current_tenant(ctx, w) = NoTenant
    /\ creation' = [creation EXCEPT ![w] =
                      [NoCreation EXCEPT !.pc = "done", !.caller = "serializer",
                                         !.result = "raised_validation"]]
    /\ UNCHANGED <<shops, settingsDB, connDB, ctx, liveSP, middlewareVars, routerVars,
                   provisionVars, tenantProv, resolverVars, authVars>>

\* Shop.save lines 203-205: the other head offices of the tenant are demoted.
DemoteHeadOffices(w) ==
    LET instance == creation[w].instance IN
    /\ creation[w].pc = "demote"
    /\ shops' = IF instance.is_head_office
                THEN { IF s.tenant = instance.tenant /\ s.is_head_office
                            /\ s.id # instance.id
                       THEN [s EXCEPT !.is_head_office = FALSE] ELSE s : s \in shops }
                ELSE shops
    /\ creation' = [creation EXCEPT ![w].pc = "subdomain"]
    /\ UNCHANGED <<settingsDB, connDB, ctx, liveSP, middlewareVars, routerVars,
                   provisionVars, tenantProv, resolverVars, authVars>>

\* Shop.save lines 208-222: a blank subdomain is generated.
GenerateSubdomain(w) ==
    LET instance == creation[w].instance IN
    /\ creation[w].pc = "subdomain"
    /\ creation' = [creation EXCEPT
                      ![w].pc = "insert",
                      ![w].instance.subdomain =
                          IF instance.subdomain = Blank
                          THEN FirstFreeSubdomain(original_subdomain(instance),
                                                  SubdomainsOfOthers(instance))
                          ELSE instance.subdomain]
    /\ UNCHANGED <<shops, settingsDB, connDB, ctx, liveSP, middlewareVars, routerVars,
                   provisionVars, tenantProv, resolverVars, authVars>>

\* The row super().save() writes and the table with it.
RowToWrite(instance) ==
    IF instance.id = NoPk THEN [instance EXCEPT !.id = NextShopId] ELSE instance
TableWith(row) == { s \in shops : s.id # row.id } \cup { row }

\* Shop.save line 224: super().save() inserts or updates the row.
SaveRow(w) ==
    LET row == RowToWrite(creation[w].instance) IN
    /\ creation[w].pc = "insert"
    /\ unique_schema_name(TableWith(row))
    /\ unique_head_office_per_tenant(TableWith(row))
    /\ unique_subdomain_per_tenant(TableWith(row))
    /\ shops' = TableWith(row)
    /\ creation' = [creation EXCEPT ![w].pc = "signal", ![w].instance = row,
                                    ![w].created = (creation[w].instance.id = NoPk)]
    /\ UNCHANGED <<settingsDB, connDB, ctx, liveSP, middlewareVars, routerVars,
                   provisionVars, tenantProv, resolverVars, authVars>>

\* Shop.save line 224: the database refuses the row (IntegrityError); the
\* serializer turns it into a ValidationError (serializers.py 91-94).
SaveRowRaises(w) ==
    LET row == RowToWrite(creation[w].instance) IN
    /\ creation[w].pc = "insert"
    /\ \/ ~unique_schema_name(TableWith(row))
       \/ ~unique_head_office_per_tenant(TableWith(row))
       \/ ~unique_subdomain_per_tenant(TableWith(row))
    /\ creation' = [creation EXCEPT
                      ![w].pc = "done",
                      ![w].result = IF creation[w].caller = "serializer"
                                    THEN "raised_validation" ELSE "raised_integrity"]
    /\ UNCHANGED <<shops, settingsDB, connDB, ctx, liveSP, middlewareVars, routerVars,
                   provisionVars, tenantProv, resolverVars, authVars>>

\* create_shop_schema_on_save and ShopAdmin.save_model for a Shop that was
\* not created by this save: nothing to provision.
SaveEndsWithoutProvisioning(w) ==
    /\ creation[w].pc = "signal"
    /\ ~creation[w].created
    /\ creation' = [creation EXCEPT ![w].pc = "done", ![w].result = "completed"]
    /\ UNCHANGED <<shops, settingsDB, connDB, ctx, liveSP, middlewareVars, routerVars,
                   provisionVars, tenantProv, resolverVars, authVars>>

\* create_shop_schema_on_save line 229: register_tenant_connection.
SignalRegisters(w) ==
    /\ creation[w].pc = "signal"
    /\ creation[w].created
    /\ register_tenant_connection(creation[w].instance.tenant)
    /\ creation' = [creation EXCEPT ![w].pc = "signal_provision"]
    /\ UNCHANGED <<shops, ctx, liveSP, middlewareVars, routerVars, provisionVars,
                   tenantProv, resolverVars, authVars>>

\* create_shop_schema_on_save line 230: create_shop_schema is called.
SignalProvisions(w) ==
    /\ creation[w].pc = "signal_provision"
    /\ prov[w].result = "none"
    /\ ProvisionEnter(w, creation[w].instance.tenant, creation[w].instance.schema_name)

\* create_shop_schema_on_save lines 230-233: create_shop_schema has returned,
\* or it has raised and the exception is printed and dropped; the creating
\* call returns unless the admin goes on.
SignalEnds(w) ==
    /\ creation[w].pc = "signal_provision"
    /\ prov[w].pc = "idle"
    /\ prov[w].result # "none"
    /\ creation' = [creation EXCEPT
                      ![w].pc = IF creation[w].caller = "admin"
                                THEN "admin_register" ELSE "done",
                      ![w].schema_failed = (prov[w].result = "raised"),
                      ![w].result = IF creation[w].caller = "admin"
                                    THEN "none" ELSE "completed"]
    /\ prov' = [prov EXCEPT ![w] = NoProvision]
    /\ UNCHANGED <<shops, settingsDB, connDB, ctx, liveSP, middlewareVars, routerVars,
                   tenantDB, tenantProv, resolverVars, authVars>>

\* ShopAdmin.save_model lines 51-54: register_tenant_connection again.
AdminRegisters(w) ==
    /\ creation[w].pc = "admin_register"
    /\ register_tenant_connection(creation[w].instance.tenant)
    /\ creation' = [creation EXCEPT ![w].pc = "admin_provision"]
    /\ UNCHANGED <<shops, ctx, liveSP, middlewareVars, routerVars, provisionVars,
                   tenantProv, resolverVars, authVars>>

\* ShopAdmin.save_model line 57: create_shop_schema is called again.
AdminProvisions(w) ==
    /\ creation[w].pc = "admin_provision"
    /\ prov[w].result = "none"
    /\ ProvisionEnter(w, creation[w].instance.tenant, creation[w].instance.schema_name)

\* ShopAdmin.save_model line 57: create_shop_schema has returned, or it has
\* raised and nothing catches the exception.
AdminEnds(w) ==
    /\ creation[w].pc = "admin_provision"
    /\ prov[w].pc = "idle"
    /\ prov[w].result # "none"
    /\ creation' = [creation EXCEPT
                      ![w].pc = "done",
                      ![w].schema_failed = (@ \/ prov[w].result = "raised"),
                      ![w].result = IF prov[w].result = "raised"
                                    THEN "raised_provisioning" ELSE "completed"]
    /\ prov' = [prov EXCEPT ![w] = NoProvision]
    /\ UNCHANGED <<shops, settingsDB, connDB, ctx, liveSP, middlewareVars, routerVars,
                   tenantDB, tenantProv, resolverVars, authVars>>

\* The request the caller serves was accepted for tenant t (line 161).
CallerTenant(w, t) ==
    /\ creation[w].pc \in {"idle", "done"}
    /\ ProvisionCallerTenant(w, t)

\* One step of a create_shop_schema run in which no statement raises.
ProvisionReturns(w) ==
    \/ InstallOverride(w)
    \/ CreateSchema(w)
    \/ CreateMigrationsTable(w)
    \/ ProvisionSetTenant(w)
    \/ FakeSharedMigrations(w)
    \/ Migrate(w)
    \/ VerifyTables(w)
    \/ RestoreOptions(w)

\* One step of create_shop_schema on worker w, called from a Shop save; the
\* run fails where the database refuses CREATE SCHEMA, or not at all.
ProvisionOrRefuse(w) ==
    \/ ProvisionReturns(w)
    \/ CreateSchemaRaises(w)

\* One step of create_shop_schema on worker w, called from a Shop save; the
\* run fails at any statement that can raise.
ProvisionStep(w) ==
    \/ ProvisionOrRefuse(w)
    \/ CreateMigrationsTableRaises(w)
    \/ FakeSharedMigrationsRaises(w)
    \/ MigrateRaises(w)
    \/ VerifyRaises(w)

\* One step of Shop.save on worker w, up to the post_save signal.
SaveStep(w) ==
    \/ DemoteHeadOffices(w)
    \/ GenerateSubdomain(w)
    \/ SaveRow(w)
    \/ SaveRowRaises(w)
    \/ SaveEndsWithoutProvisioning(w)

\* One step of create_shop_schema_on_save on worker w.
SignalStep(w) ==
    \/ SignalRegisters(w)
    \/ SignalProvisions(w)
    \/ SignalEnds(w)

\* One step of the second provisioning of ShopAdmin.save_model on worker w.
AdminStep(w) ==
    \/ AdminRegisters(w)
    \/ AdminProvisions(w)
    \/ AdminEnds(w)

\* Shops are created by the three callers and promoted in the admin, one
\* save at a time; provisioning fails anywhere.
NextShops ==
    \E w \in SequentialWorkers :
        \/ \E t \in TenantIds : CallerTenant(w, t)
        \/ \E caller \in Callers, draft \in ShopDrafts : BeginCreate(w, caller, draft)
        \/ \E stored \in shops : BeginUpdate(w, "admin", stored, TRUE)
        \/ SerializerRejects(w)
        \/ SaveStep(w)
        \/ SignalStep(w)
        \/ AdminStep(w)
        \/ ProvisionStep(w)

SpecShops == Init /\ [][NextShops]_vars

\* C11: when the schema provisioning a Shop creation triggers fails, the
\* Shop record stays stored and the creating call (Shop.objects.create, the
\* serializer, the admin save hook) completes without raising the
\* provisioning error.
C11_CreationSurvivesProvisioningFailure ==
    \A w \in Workers :
        (creation[w].pc = "done" /\ creation[w].created /\ creation[w].schema_failed)
            => /\ \E s \in shops : /\ s.id = creation[w].instance.id
                                   /\ s.schema_name = creation[w].instance.schema_name
               /\ creation[w].result = "completed"

\* Shops with a blank subdomain are created one after the other.
NextSubdomains ==
    \E w \in SequentialWorkers :
        \/ \E draft \in BlankDrafts : BeginCreate(w, "orm", draft)
        \/ DemoteHeadOffices(w)
        \/ GenerateSubdomain(w)
        \/ SaveRow(w)
        \/ SaveRowRaises(w)
        \/ SignalStep(w)
        \/ ProvisionReturns(w)

SpecSubdomains == Init /\ [][NextSubdomains]_vars

\* The tenants all of whose Shops are created with a blank subdomain.
C18_Tenants == { d.tenant : d \in BlankDrafts } \ { s.tenant : s \in InitialShops }
C18_Shops == { s \in shops : s.tenant \in C18_Tenants }

\* The slug s of a shop's name, or the fallback for an empty slug.
C18_Slug(shop) == IF slugify(shop.name) # "" THEN slugify(shop.name) ELSE "shop-new"

\* The shops of the tenant created before this one, and the shop's rank n
\* among the shops of its slug.
C18_Earlier(shop) == { o \in shops : o.tenant = shop.tenant /\ o.id < shop.id }
C18_Rank(shop) ==
    1 + Cardinality({ o \in C18_Earlier(shop) : C18_Slug(o) = C18_Slug(shop) })

\* s for k = 0, s-k otherwise.
C18_Candidate(shop, k) ==
    IF k = 0 THEN C18_Slug(shop) ELSE Suffixed(C18_Slug(shop), k)

\* Pairwise distinct, non-empty subdomains within a tenant.
C18_Distinct ==
    \A a, b \in C18_Shops :
        /\ a.subdomain # Blank
        /\ (a.tenant = b.tenant /\ a.id # b.id) => a.subdomain # b.subdomain

\* C18 as stated: after any sequence of Shop creations with blank
\* subdomains the tenant's subdomains are pairwise distinct and non-empty,
\* and the n-th shop whose name slugifies to s (the fallback for an empty
\* slug) is stored with s for n = 1 and with s-(n-1) for n >= 2.
C18_NthShopGetsNthSuffix ==
    /\ C18_Distinct
    /\ \A shop \in C18_Shops :
          shop.subdomain = C18_Candidate(shop, C18_Rank(shop) - 1)

\* C18 amended: the subdomains are pairwise distinct and non-empty; each
\* shop is stored with the first of s, s-1, s-2, ... that no earlier shop of
\* the tenant has, which is s-(n-1) unless a shop of another slug holds one
\* of s, ..., s-(n-1); and the row about to be written never breaks the
\* subdomain constraint.
C18_FirstFreeSuffix ==
    /\ C18_Distinct
    /\ \A shop \in C18_Shops :
          LET held == { o.subdomain : o \in C18_Earlier(shop) }
              n == C18_Rank(shop)
          IN /\ \E k \in 0..Cardinality(held) :
                   /\ shop.subdomain = C18_Candidate(shop, k)
                   /\ \A j \in 0..(k - 1) : C18_Candidate(shop, j) \in held
             /\ (\A o \in C18_Earlier(shop) :
                     C18_Slug(o) # C18_Slug(shop)
                         => \A j \in 0..(n - 1) : o.subdomain # C18_Candidate(shop, j))
                   => shop.subdomain = C18_Candidate(shop, n - 1)
    /\ \A w \in Workers :
          (creation[w].pc = "insert" /\ creation[w].instance.tenant \in C18_Tenants)
              => unique_subdomain_per_tenant(TableWith(RowToWrite(creation[w].instance)))

\* Five shops of one tenant are stored: a second shop of slug s holds s-2
\* because a shop of another slug holds s-1, and the second shop with an
\* empty slug holds the disambiguated fallback.
C18_Witness ==
    /\ \E shop \in C18_Shops :
          /\ C18_Rank(shop) = 2
          /\ shop.subdomain = C18_Candidate(shop, C18_Rank(shop))
    /\ \E shop \in C18_Shops :
          /\ slugify(shop.name) = ""
          /\ C18_Rank(shop) > 1
          /\ shop.subdomain = Suffixed("shop-new", C18_Rank(shop) - 1)

\* Two workers save Shops at the same time: new head offices, and stored
\* Shops that are made the head office.
NextShopsConcurrent ==
    \E w \in Workers :
        \/ \E draft \in ShopDrafts : BeginCreate(w, "orm", draft)
        \/ \E stored \in shops : BeginUpdate(w, "orm", stored, TRUE)
        \/ SaveStep(w)
        \/ SignalStep(w)
        \/ ProvisionOrRefuse(w)

SpecShopsConcurrent == Init /\ [][NextShopsConcurrent]_vars

\* The tables of a schema of tenant t's database.
C21_TablesIn(t, schema) == { x \in tenantDB[t].tables : x[1] = schema }

\* C21: after the creation of a Shop whose provisioning succeeded, the
\* tenant's database has a schema named by the shop's schema_name holding
\* django_migrations and at least one more table; the tables are created
\* while the search path resolves to the new schema, never in public.
C21_SchemaHoldsItsTables ==
    /\ \A w \in Workers :
          (creation[w].pc = "done" /\ creation[w].created
                /\ creation[w].result = "completed" /\ ~creation[w].schema_failed)
            => LET t == creation[w].instance.tenant
                   schema == creation[w].instance.schema_name
               IN /\ schema \in tenantDB[t].schemas
                  /\ <<schema, "django_migrations">> \in tenantDB[t].tables
                  /\ C21_TablesIn(t, schema) # { <<schema, "django_migrations">> }
    /\ \A t \in TenantIds :
          /\ C21_TablesIn(t, "public") = {}
          /\ \A x \in tenantDB[t].tables \cup tenantDB[t].recorded :
                x[1] \in tenantDB[t].schemas

\* The head offices of tenant t in table S.
C17_HeadOffices(S, t) == { s \in S : s.tenant = t /\ s.is_head_office }

C17_AtMostOne(S) == \A t \in TenantIds : Cardinality(C17_HeadOffices(S, t)) <= 1

\* C27: once the create_shop_schema calls of two threads that create two
\* shops of one tenant have both returned, the tenant's connection
\* descriptor carries no search-path override in either table: its options
\* are the empty options in place before the first call started.
C27_NoOverrideAfterBoth ==
    (\A w \in Workers : /\ creation[w].pc = "done"
                        /\ creation[w].created
                        /\ ~creation[w].schema_failed
                        /\ prov[w].pc = "idle")
    => \A w \in Workers :
          LET alias == db_alias(creation[w].instance.tenant) IN
          /\ GetOptions(settingsDB[alias]) = EmptyDict
          /\ GetOptions(connDB[alias]) = EmptyDict

NewTenantIds == { 3, 4 }

\* Who creates a Tenant: Tenant.objects.create (a shell, a fixture) or
\* TenantAdmin.save_model, which goes on to provision_tenant.
TenantCallers == { "orm", "admin" }

\* The descriptor _add_database_to_settings stores (lines 92-105).
signal_db_config(t) ==
    [NAME |-> TenantDbName(t), CONN_MAX_AGE |-> 0,
     has_OPTIONS |-> TRUE, OPTIONS |-> EmptyDict]

\* The id of the next Tenant row.
NextTenantId ==
    CHOOSE t \in NewTenantIds :
        /\ t > tenantProv.tenant
        /\ \A u \in NewTenantIds : u > tenantProv.tenant => t <= u

\* The Tenant row is inserted (admin.py line 23, Model.save) and post_save
\* is sent. The receiver create_tenant_database runs when it is connected,
\* the process is not a test run and db_name is set (lines 17-28).
TenantSaved(caller, signal) ==
    /\ tenantProv.pc \in {"idle", "done"}
    /\ \E t \in NewTenantIds : t > tenantProv.tenant
    /\ tenantProv' = [tenantProv EXCEPT
                        !.pc = IF signal THEN "create_database" ELSE "caller",
                        !.caller = caller, !.signal = signal,
                        !.tenant = NextTenantId,
                        !.stored = @ \cup { NextTenantId },
                        !.failed = "none", !.result = "none"]
    /\ UNCHANGED <<shops, settingsDB, connDB, ctx, liveSP, middlewareVars, routerVars,
                   provisionVars, creation, resolverVars, authVars>>

\* _create_database lines 77-79: CREATE DATABASE succeeds, or the database
\* exists already (DuplicateDatabase) and the receiver goes on.
CreateDatabase ==
    /\ tenantProv.pc = "create_database"
    /\ tenantProv' = [tenantProv EXCEPT
                        !.pc = "add_settings",
                        !.databases = @ \cup { TenantDbName(tenantProv.tenant) }]
    /\ UNCHANGED <<shops, settingsDB, connDB, ctx, liveSP, middlewareVars, routerVars,
                   provisionVars, creation, resolverVars, authVars>>

\* _create_database lines 61-82 raise anything else; lines 36-40: the Tenant
\* is deleted and the exception leaves the receiver and the save.
CreateDatabaseRaises ==
    /\ tenantProv.pc = "create_database"
    /\ tenantProv' = [tenantProv EXCEPT
                        !.pc = "done",
                        !.stored = @ \ { tenantProv.tenant },
                        !.failed = "create_database", !.result = "raised"]
    /\ UNCHANGED <<shops, settingsDB, connDB, ctx, liveSP, middlewareVars, routerVars,
                   provisionVars, creation, resolverVars, authVars>>

\* _add_database_to_settings lines 92-108.
AddDatabaseToSettings ==
    LET t == tenantProv.tenant IN
    /\ tenantProv.pc = "add_settings"
    /\ settingsDB' = DictSet(settingsDB, db_alias(t), signal_db_config(t))
    /\ connDB' = DictSet(connDB, db_alias(t), signal_db_config(t))
    /\ tenantProv' = [tenantProv EXCEPT !.pc = "run_migrations"]
    /\ UNCHANGED <<shops, ctx, liveSP, middlewareVars, routerVars, provisionVars,
                   creation, resolverVars, authVars>>

\* The thread that creates the Tenant.
TenantThread == CHOOSE w \in SequentialWorkers : TRUE

\* call_command("migrate", app_label, database=alias) for each of the
\* labels: the tables of the labels the Database Router allows on the alias
\* in the thread's context are created, the others are skipped.
MigratedOn(t, labels) ==
    { <<t, l>> : l \in { a \in labels :
                           allow_migrate(get_current_tenant(ctx, TenantThread),
                                         db_alias(t), a) } }

\* _run_migrations returns (lines 47-49, 111-133): one migrate run per entry
\* of settings.TENANT_APPS.
RunMigrations ==
    /\ tenantProv.pc = "run_migrations"
    /\ tenantProv' = [tenantProv EXCEPT
                        !.pc = "caller",
                        !.migrated = @ \cup { tenantProv.tenant },
                        !.tables = @ \cup MigratedOn(tenantProv.tenant,
                                        { e[1] : e \in { a \in settingsApps.TENANT_APPS :
                                                           Len(a) = 1 } })]
    /\ UNCHANGED <<shops, settingsDB, connDB, ctx, liveSP, middlewareVars, routerVars,
                   provisionVars, creation, resolverVars, authVars>>

\* _run_migrations raises (lines 50-53): re-raised, nothing is undone.
RunMigrationsRaises ==
    /\ tenantProv.pc = "run_migrations"
    /\ tenantProv' = [tenantProv EXCEPT !.pc = "done", !.failed = "migrate",
                                        !.result = "raised"]
    /\ UNCHANGED <<shops, settingsDB, connDB, ctx, liveSP, middlewareVars, routerVars,
                   provisionVars, creation, resolverVars, authVars>>

\* Tenant.objects.create returns the stored Tenant.
CreateReturns ==
    /\ tenantProv.pc = "caller"
    /\ tenantProv.caller = "orm"
    /\ tenantProv' = [tenantProv EXCEPT !.pc = "done", !.result = "completed"]
    /\ UNCHANGED <<shops, settingsDB, connDB, ctx, liveSP, middlewareVars, routerVars,
                   provisionVars, creation, resolverVars, authVars>>

\* provision_tenant line 65, create_tenant_database_postgres lines 43-57:
\* the database is created unless pg_database lists it.
CreateTenantDatabasePostgres ==
    /\ tenantProv.pc = "caller"
    /\ tenantProv.caller = "admin"
    /\ tenantProv' = [tenantProv EXCEPT
                        !.pc = "register",
                        !.databases = @ \cup { TenantDbName(tenantProv.tenant) }]
    /\ UNCHANGED <<shops, settingsDB, connDB, ctx, liveSP, middlewareVars, routerVars,
                   provisionVars, creation, resolverVars, authVars>>

\* create_tenant_database_postgres raises (the connection or CREATE DATABASE
\* fails): try/finally only, the exception leaves provision_tenant and
\* save_model.
CreateTenantDatabasePostgresRaises ==
    /\ tenantProv.pc = "caller"
    /\ tenantProv.caller = "admin"
    /\ tenantProv' = [tenantProv EXCEPT !.pc = "done", !.failed = "create_database",
                                        !.result = "raised"]
    /\ UNCHANGED <<shops, settingsDB, connDB, ctx, liveSP, middlewareVars, routerVars,
                   provisionVars, creation, resolverVars, authVars>>

\* provision_tenant line 66.
ProvisionTenantRegisters ==
    /\ tenantProv.pc = "register"
    /\ register_tenant_connection(tenantProv.tenant)
    /\ tenantProv' = [tenantProv EXCEPT !.pc = "migrate"]
    /\ UNCHANGED <<shops, ctx, liveSP, middlewareVars, routerVars, provisionVars,
                   creation, resolverVars, authVars>>

\* provision_tenant line 68: call_command("migrate", database=alias,
\* app_label="shop_core") returns.
ProvisionTenantMigrates ==
    /\ tenantProv.pc = "migrate"
    /\ tenantProv' = [tenantProv EXCEPT
                        !.pc = "done", !.result = "completed",
                        !.migrated = @ \cup { tenantProv.tenant },
                        !.tables = @ \cup MigratedOn(tenantProv.tenant, { "shop_core" })]
    /\ UNCHANGED <<shops, settingsDB, connDB, ctx, liveSP, middlewareVars, routerVars,
                   provisionVars, creation, resolverVars, authVars>>

\* provision_tenant line 68: call_command("migrate", ...) raises.
ProvisionTenantMigrateRaises ==
    /\ tenantProv.pc = "migrate"
    /\ tenantProv' = [tenantProv EXCEPT !.pc = "done", !.failed = "migrate",
                                        !.result = "raised"]
    /\ UNCHANGED <<shops, settingsDB, connDB, ctx, liveSP, middlewareVars, routerVars,
                   provisionVars, creation, resolverVars, authVars>>

\* The thread that creates Tenants runs with tenant t, or none, in its
\* Context Store.
TenantCallerContext(t) ==
    /\ tenantProv.pc \in {"idle", "done"}
    /\ ctx' = IF t = NoTenant THEN clear_current_tenant(ctx, TenantThread)
              ELSE set_current_tenant(ctx, TenantThread, t)
    /\ UNCHANGED <<shops, settingsDB, connDB, liveSP, middlewareVars, routerVars,
                   provisionVars, directoryVars, resolverVars, authVars>>

NextTenant ==
    \/ \E t \in TenantIds \cup { NoTenant } : TenantCallerContext(t)
    \/ \E caller \in TenantCallers, signal \in BOOLEAN : TenantSaved(caller, signal)
    \/ CreateDatabase
    \/ CreateDatabaseRaises
    \/ AddDatabaseToSettings
    \/ RunMigrations
    \/ RunMigrationsRaises
    \/ CreateReturns
    \/ CreateTenantDatabasePostgres
    \/ CreateTenantDatabasePostgresRaises
    \/ ProvisionTenantRegisters
    \/ ProvisionTenantMigrates
    \/ ProvisionTenantMigrateRaises

SpecTenant == Init /\ [][NextTenant]_vars

\* C20: during new-tenant provisioning an existing database is tolerated and
\* provisioning goes on to register the connection and run the migrations;
\* any other failure to create the database deletes the just-created Tenant,
\* leaves no Connection Registry entry under its alias and re-raises.
C20_CreateFailureRollsBack ==
    LET t == tenantProv.tenant IN
    /\ (tenantProv.pc = "done" /\ tenantProv.failed = "create_database")
          => /\ t \notin tenantProv.stored
             /\ db_alias(t) \notin DOMAIN settingsDB
             /\ db_alias(t) \notin DOMAIN connDB
             /\ tenantProv.result = "raised"
    /\ (tenantProv.pc = "done" /\ tenantProv.result = "completed"
            /\ (tenantProv.signal \/ tenantProv.caller = "admin"))
          => /\ TenantDbName(t) \in tenantProv.databases
             /\ db_alias(t) \in DOMAIN settingsDB
             /\ db_alias(t) \in DOMAIN connDB
             /\ t \in tenantProv.migrated

\* C24: when the migration step of new-tenant provisioning has run for a
\* tenant (the receiver's _run_migrations or provision_tenant), the
\* Database Router has allowed every tenant-scoped module on the new
\* tenant's alias and its baseline tables are in the new database.
C24_TenantModulesMigrated ==
    \A t \in tenantProv.migrated :
        \A l \in LastLabels(settingsApps.TENANT_APPS) : <<t, l>> \in tenantProv.tables

\* -------------------------------------------------------------- SpecAuth

\* The default manager without the tenant filter (mutant of get_queryset).
get_queryset_unfiltered(tenant) == ShopUsers

\* TenantUserManager.get_queryset: ShopUser.objects
get_queryset(tenant) ==
    IF tenant # NoTenant
    THEN { u \in ShopUsers : u.tenant_id = tenant }
    ELSE ShopUsers

\* user.check_password(password)
check_password(user, password) == user.password = password

\* ShopUserBackend.user_can_authenticate
user_can_authenticate(user) == user.is_active

\* ShopUserBackend.authenticate with tenant in the Context Store and the
\* given login-attempt cache: the user returned (NoPk for None), whether the
\* call raised, and the cache afterwards.
authenticate(tenant, attempts, username, password) ==
    LET recorded == [attempts EXCEPT ![username] = @ + 1]
        cleared == [attempts EXCEPT ![username] = 0]
        superusers == { u \in ShopUsers : u.username = username /\ u.is_superuser }
        found == { u \in get_queryset(tenant) : u.username = username }
        Passes(users) ==
            { u \in users : check_password(u, password) /\ user_can_authenticate(u) }
        Returns(users, cache) ==
            [user |-> (CHOOSE u \in users : TRUE).id, raised |-> FALSE,
             attempts |-> cache]
        Nothing(cache) == [user |-> NoPk, raised |-> FALSE, attempts |-> cache]
    IN  IF username = None \/ password = None THEN Nothing(attempts)
        ELSE IF attempts[username] >= MAX_LOGIN_ATTEMPTS THEN Nothing(attempts)
        ELSE IF Cardinality(superusers) > 1
        THEN [user |-> NoPk, raised |-> TRUE, attempts |-> attempts]
        ELSE IF Passes(superusers) # {} THEN Returns(Passes(superusers), cleared)
        ELSE IF tenant = NoTenant THEN Nothing(recorded)
        ELSE IF Cardinality(found) > 1
        THEN [user |-> NoPk, raised |-> TRUE, attempts |-> attempts]
        ELSE IF Passes(found) # {} THEN Returns(Passes(found), cleared)
        ELSE Nothing(recorded)

\* The thread that logs in runs in a request accepted for tenant t, or with
\* no tenant in the Context Store.
LoginContext(w, t) ==
    /\ ctx' = IF t = NoTenant THEN clear_current_tenant(ctx, w)
              ELSE set_current_tenant(ctx, w, t)
    /\ UNCHANGED <<shops, settingsDB, connDB, liveSP, middlewareVars, routerVars,
                   provisionVars, directoryVars, resolverVars, authVars>>

\* backend.authenticate(request, username, password) on worker w.
Authenticate(w, username, password) ==
    LET tenant == get_current_tenant(ctx, w)
        r == authenticate(tenant, auth.attempts, username, password)
    IN  /\ auth' = [attempts |-> r.attempts,
                    last |-> [username |-> username, password |-> password,
                              tenant |-> tenant,
                              locked |-> /\ username # None
                                         /\ auth.attempts[username] >= MAX_LOGIN_ATTEMPTS,
                              raised |-> r.raised, user |-> r.user]]
        /\ UNCHANGED <<shops, settingsDB, connDB, ctx, liveSP, middlewareVars, routerVars,
                       provisionVars, directoryVars, resolverVars>>

\* The cache entry login_attempts:<username> expires (LOCKOUT_DURATION).
LockoutExpires(username) ==
    /\ auth.attempts[username] > 0
    /\ auth' = [auth EXCEPT !.attempts[username] = 0]
    /\ UNCHANGED <<shops, settingsDB, connDB, ctx, liveSP, middlewareVars, routerVars,
                   provisionVars, directoryVars, resolverVars>>

NextAuth ==
    \E w \in SequentialWorkers :
        \/ \E t \in TenantIds \cup { NoTenant } : LoginContext(w, t)
        \/ \E username \in Usernames \cup { None }, password \in Passwords \cup { None } :
              Authenticate(w, username, password)
        \/ \E username \in Usernames : LockoutExpires(username)

SpecAuth == Init /\ [][NextAuth]_vars

\* The user the last call returned, and the superuser the submitted
\* credentials belong to.
C22_Returned == { u \in ShopUsers : u.id = auth.last.user }
C22_Superuser ==
    { u \in ShopUsers : /\ u.is_superuser
                        /\ u.username = auth.last.username
                        /\ u.password = auth.last.password }

\* A non-superuser is returned only under its own tenant.
C22_TenantBound ==
    \A u \in C22_Returned :
        ~u.is_superuser
            => /\ auth.last.tenant # NoTenant
               /\ u.tenant_id = auth.last.tenant
               /\ u.username = auth.last.username
               /\ u.password = auth.last.password

\* C22 as stated: authenticate returns a non-superuser only when a tenant is
\* in the Context Store and the user's tenant_id is that tenant's id, and a
\* superuser with a correct password is authenticated under any context.
C22_TenantBoundAndSuperuserAlways ==
    /\ C22_TenantBound
    /\ \A u \in C22_Superuser : auth.last.user = u.id

\* C22 amended: as stated, but the superuser is authenticated when it is
\* active and the username is not locked out by failed attempts.
C22_TenantBoundAndActiveSuperuser ==
    /\ C22_TenantBound
    /\ \A u \in C22_Superuser :
          (u.is_active /\ ~auth.last.locked) => auth.last.user = u.id
    /\ ~auth.last.raised

\* A user's correct credentials were submitted under another tenant and
\* nobody was returned, without a lockout.
C22_Witness ==
    /\ auth.last.user = NoPk
    /\ ~auth.last.locked
    /\ auth.last.tenant # NoTenant
    /\ \E u \in ShopUsers :
          /\ ~u.is_superuser /\ u.is_active
          /\ u.username = auth.last.username /\ u.password = auth.last.password
          /\ u.tenant_id # auth.last.tenant

\* ---------------------------------------------------------- SpecResolver

\* The labels of the hosts the Host Resolver is given, and their number.
ResolverLabels == { "localhost", "acme", "shop1", "com" }
ResolverHosts ==
    UNION { [1..n -> ResolverLabels] : n \in 1..4 }

\* self._parse_subdomains(host) is called with a host of the given labels.
ParseHost(parts) ==
    /\ parsed' = [raw |-> parts, host |-> parts, result |-> _parse_subdomains(parts)]
    /\ UNCHANGED <<shops, settingsDB, connDB, ctx, liveSP, middlewareVars, routerVars,
                   provisionVars, directoryVars, authVars>>

\* The hosts requests arrive with, as request.get_host() returns them: the
\* labels in the letter case the client sent, the last one with or without
\* a port.
RawLabels == { "localhost", "LOCALHOST", "acme", "Acme", "shop1" }
RawHosts ==
    { h \in UNION { [1..n -> RawLabels \cup { "localhost:8000", "LOCALHOST:8000" }] :
                       n \in 1..3 } :
        \A i \in 1..(Len(h) - 1) : h[i] \in RawLabels }

\* Lines 139-142: host = request.get_host().split(":")[0] and
\* self._parse_subdomains(host).
ResolveHost(host) ==
    /\ parsed' = [raw |-> host, host |-> HostParts(host),
                  result |-> _parse_subdomains(HostParts(host))]
    /\ UNCHANGED <<shops, settingsDB, connDB, ctx, liveSP, middlewareVars, routerVars,
                   provisionVars, directoryVars, authVars>>

NextResolver ==
    \/ \E parts \in ResolverHosts : ParseHost(parts)
    \/ \E host \in RawHosts : ResolveHost(host)

SpecResolver == Init /\ [][NextResolver]_vars

\* ---------------------------------------------------- claims: middleware

\* C1: after the middleware has finished an accepted (tenant-resolved)
\* request, whether the downstream handler returned or raised, the worker's
\* Context Store holds neither a tenant nor a shop schema.
C1_ClearedAfterAcceptedRequest ==
    \A w \in Workers :
        (pc[w] = "done" /\ route[w] = "tenant"
           /\ outcome[w] \in {"response", "raised_handler"})
        => ctx[w] = EmptyCtx

\* C2: a request that fails in a middleware step after the tenant was stored
\* (shop lookup, search path) ends with an empty Context Store.
C2_ClearedAfterMiddlewareFailure ==
    \A w \in Workers :
        (pc[w] = "done" /\ outcome[w] \in {"raised_shop_lookup", "raised_search_path"})
        => ctx[w] = EmptyCtx

\* C3: a request rejected with 403 (no tenant key, or a key matching no
\* Tenant) never invoked the handler, wrote no Connection Registry entry and
\* leaves the worker's Context Store empty, whatever requests came before.
C3_RejectionLeavesNothing ==
    \A w \in Workers :
        (pc[w] = "done" /\ outcome[w] \in {"forbidden_unspecified", "forbidden_invalid"})
        => /\ calls[w] = 0
           /\ regWrites[w] = 0
           /\ ctx[w] = EmptyCtx

\* C4: with workers serving requests of different tenants at once, every
\* read of the Context Store inside a request's handler returns the tenant
\* and the shop schema resolved for that very request.
C4_HandlerReadsOwnContext ==
    \A w \in Workers :
        (pc[w] = "in_handler" /\ route[w] = "tenant" /\ obs[w] # NoRead)
        => /\ obs[w].tenant = loc[w].tenant
           /\ obs[w].shop_schema = loc[w].shop_schema

\* C4 witness: two handlers run at once for different tenants and both
\* have read the Context Store.
C4_Witness ==
    \E w1, w2 \in Workers :
        /\ pc[w1] = "in_handler" /\ pc[w2] = "in_handler"
        /\ route[w1] = "tenant" /\ route[w2] = "tenant"
        /\ loc[w1].tenant # loc[w2].tenant
        /\ obs[w1] # NoRead /\ obs[w2] # NoRead

\* The paths the bypass rule names: "/" or one of the four public
\* prefixes, and not under /api/login/.
C5_NamedPublic(path) ==
    /\ \/ path = <<"/">>
       \/ startswith(path, PrefixAdmin)
       \/ startswith(path, PrefixFavicon)
       \/ startswith(path, PrefixTenants)
       \/ startswith(path, PrefixCurrentTenant)
    /\ ~startswith(path, PrefixLogin)

\* C5: a request on a public path is bypassed: the handler is invoked
\* exactly once, with no Tenant Directory lookup, no Connection Registry
\* write and no tenant or shop schema set in the Context Store; any other
\* path, and every path under /api/login/, is not bypassed.
C5_BypassHasNoTenantEffects ==
    [][\A w \in Workers :
         /\ (pc[w] = "start" /\ pc'[w] # "start")
            => /\ C5_NamedPublic(req[w].path) <=> route'[w] = "bypass"
               /\ startswith(req[w].path, PrefixLogin) => route'[w] # "bypass"
         /\ route'[w] = "bypass"
            => /\ lookups'[w] = 0
               /\ regWrites'[w] = 0
               /\ settingsDB' = settingsDB /\ connDB' = connDB
               /\ ctx'[w] = ctx[w] \/ ctx'[w] = EmptyCtx
               /\ calls'[w] <= 1
               /\ pc'[w] = "done" => calls'[w] = 1]_vars

\* C5 witness: a bypassed request has completed with a response after one
\* handler invocation.
C5_Witness ==
    \E w \in Workers :
        /\ pc[w] = "done" /\ route[w] = "bypass" /\ outcome[w] = "response"
        /\ calls[w] = 1 /\ lookups[w] = 0

\* -------------------------------------------------------- claims: router

\* A module the settings list as shop-scoped or tenant-scoped.
C7_Scoped(app_label) ==
    \/ app_label \in LastLabels(settingsApps.SHOP_APPS)
    \/ app_label \in LastLabels(settingsApps.TENANT_APPS)

\* C7: for a shop-scoped or tenant-scoped module allow_migrate allows
\* exactly when a tenant is in context and the target is that tenant's
\* alias: it denies 'default', any other tenant's alias, and everything
\* when no tenant is in context.
C7_ScopedMigrateOnlyOnCurrentTenant ==
    (answer.op = "allow_migrate" /\ C7_Scoped(answer.app_label))
    => /\ answer.allowed
            <=> (answer.tenant # NoTenant /\ answer.db = db_alias(answer.tenant))
       /\ answer.db = DefaultAlias => ~answer.allowed
       /\ answer.tenant = NoTenant => ~answer.allowed

\* C7 witness: a shop-scoped module listed by dotted path was allowed on the
\* current tenant's alias.
C7_Witness ==
    /\ answer.op = "allow_migrate"
    /\ answer.app_label = "debtors"
    /\ <<"apps", "debtors">> \in settingsApps.SHOP_APPS
    /\ answer.tenant = 1 /\ answer.db = db_alias(1)
    /\ answer.allowed

\* What C8 expects of allow_migrate for a module that is declared shared or
\* is in none of the lists.
C8_Expected ==
    IF answer.app_label \in CrossSchemaLabels
         /\ answer.app_label \in LastLabels(settingsApps.SHARED_APPS)
    THEN answer.allowed
           <=> \/ answer.db = DefaultAlias
               \/ answer.tenant # NoTenant /\ answer.db = db_alias(answer.tenant)
    ELSE answer.allowed <=> answer.db = DefaultAlias

\* C8 as stated: in every configuration that declares them shared, the
\* cross-schema modules are allowed on 'default' and on the current tenant's
\* alias only; every other shared module and every unclassified module on
\* 'default' only.
C8_SharedMigrateAsStated ==
    (/\ answer.op = "allow_migrate"
     /\ \/ answer.app_label \in LastLabels(settingsApps.SHARED_APPS)
        \/ ~C7_Scoped(answer.app_label))
    => C8_Expected

\* C8 amended: the same, for the modules that are listed neither as
\* shop-scoped nor as tenant-scoped.
C8_SharedMigrateUnlessScoped ==
    (answer.op = "allow_migrate" /\ ~C7_Scoped(answer.app_label))
    => C8_Expected

\* C8 witness: shop_users, declared shared only, was allowed on the current
\* tenant's alias.
C8_Witness ==
    /\ answer.op = "allow_migrate"
    /\ answer.app_label = "shop_users"
    /\ <<"shop_users">> \in settingsApps.SHARED_APPS
    /\ ~C7_Scoped("shop_users")
    /\ answer.tenant = 2 /\ answer.db = db_alias(2)
    /\ answer.allowed

\* C9: db_for_read and db_for_write agree; they give the current tenant's
\* alias when a tenant is in context and the module is tenant-scoped, and
\* 'default' otherwise; the Tenant and Shop directory is always on 'default'.
C9_ReadWriteRouting ==
    answer.op = "db_for"
    => /\ answer.read = answer.write
       /\ answer.read =
            IF answer.tenant # NoTenant
                 /\ answer.app_label \in LastLabels(settingsApps.TENANT_APPS)
            THEN db_alias(answer.tenant)
            ELSE DefaultAlias
       /\ answer.app_label = "tenancy" => answer.read = DefaultAlias

\* C30: for every module whose migrations allow_migrate permits on the
\* current tenant's alias and on no other alias, db_for_read and
\* db_for_write with that tenant in context answer that tenant alias.
C30_RoutedWhereMigrated ==
    ( /\ answer.op = "db_for"
      /\ answer.tenant # NoTenant
      /\ \A db \in Aliases :
            allow_migrate(answer.tenant, db, answer.app_label)
              <=> db = db_alias(answer.tenant) )
    => /\ answer.read = db_alias(answer.tenant)
       /\ answer.write = db_alias(answer.tenant)

\* C10: the router refuses a relation between records loaded from different
\* aliases and permits it between records of the same alias.
C10_RelationOnlyWithinOneAlias ==
    answer.op = "allow_relation"
    => answer.verdict = (IF answer.db = answer.db2 THEN "True" ELSE "False")

\* ---------------------------------------------------- claims: provisioning

\* C6: when create_shop_schema has raised after it installed the override,
\* the tenant's connection options carry no override and equal the options
\* in place before the call.
C6_OptionsRestoredAfterFailure ==
    \A w \in Workers :
        (prov[w].pc = "idle" /\ prov[w].result = "raised" /\ prov[w].installed)
        => /\ ~(\E p \in GetOptions(settingsDB[db_alias(prov[w].tenant)]) :
                    p[1] = "options")
           /\ GetOptions(settingsDB[db_alias(prov[w].tenant)]) = prov[w].before
           /\ GetOptions(connDB[db_alias(prov[w].tenant)]) = prov[w].before

\* ------------------------------------------- claims: handler invocation

\* C13: when the downstream handler of an accepted request is invoked, both
\* tables of the Connection Registry hold an entry under the tenant's alias,
\* the Context Store holds the resolved tenant and the resolved shop schema,
\* and the tenant's live connection has search_path (resolved schema, public).
C13_ReadyWhenHandlerInvoked ==
    \A w \in Workers :
        (pc[w] = "in_handler" /\ route[w] = "tenant")
        => /\ db_alias(loc[w].tenant) \in DOMAIN settingsDB
           /\ db_alias(loc[w].tenant) \in DOMAIN connDB
           /\ loc[w].tenant \in TenantIds
           /\ loc[w].shop_schema # None
           /\ ctx[w] = [tenant |-> loc[w].tenant, shop_schema |-> loc[w].shop_schema]
           /\ liveSP[w][loc[w].tenant] = <<loc[w].shop_schema, "public">>

\* C13 witness: the handler of a request for shop1.acme.localhost has been
\* invoked with the schema of that shop.
C13_Witness ==
    \E w \in Workers :
        /\ pc[w] = "in_handler" /\ route[w] = "tenant" /\ calls[w] = 1
        /\ loc[w].tenant = 1 /\ loc[w].shop_subdomain = "shop1"
        /\ liveSP[w][1] = <<"acme_shop1", "public">>

\* The shop schema the stated priority gives for the locals l of a request.
C14_ByPriority(l) ==
    IF get_shop(l) # None THEN get_shop(l)
    ELSE IF l.x_shop_schema # None THEN l.x_shop_schema
    ELSE IF l.shop_subdomain # None /\ ShopsBySubdomain(l.tenant, l.shop_subdomain) # {}
    THEN SchemaOf(ShopsBySubdomain(l.tenant, l.shop_subdomain))
    ELSE IF HeadOffices(l.tenant) # {} THEN SchemaOf(HeadOffices(l.tenant))
    ELSE "public"

\* C14: the shop schema stored in the Context Store is the authenticated
\* user's assigned shop's, else the X-Shop-Schema header, else the schema of
\* the Shop of the shop subdomain, else the head office's, else 'public'; an
\* unknown shop subdomain falls through to the head office.
C14_ShopSchemaByPriority ==
    \A w \in Workers :
        (pc[w] \in {"search_path", "call", "in_handler"} /\ route[w] = "tenant")
        => ctx[w].shop_schema = C14_ByPriority(loc[w])

\* ------------------------------------------------- claims: registration

\* The entry one call of register_tenant_connection produces for tenant t.
C15_SingleCallEntry(t) ==
    [NAME |-> TenantDbName(t), CONN_MAX_AGE |-> RegisterConnMaxAge,
     has_OPTIONS |-> TRUE, OPTIONS |-> EmptyDict]

\* What a write of register_tenant_connection for tenant t may do to a
\* table of the registry: one entry under the alias, equal to the single-call
\* entry, the other aliases untouched, nothing changed on a repeated call.
C15_WriteIsIdempotent(before, after, t) ==
    /\ DOMAIN after = DOMAIN before \cup { db_alias(t) }
    /\ after[db_alias(t)] = C15_SingleCallEntry(t)
    /\ \A a \in DOMAIN before \ { db_alias(t) } : after[a] = before[a]
    /\ (db_alias(t) \in DOMAIN before /\ before[db_alias(t)] = C15_SingleCallEntry(t))
          => after = before

\* C15: register_tenant_connection called again for an unchanged tenant
\* leaves the registry with one entry under the alias, equal to the entry a
\* single call produces, and leaves every other alias's entry unchanged.
C15_RegisterIsIdempotent ==
    [][\A w \in Workers :
          /\ (pc[w] = "register" /\ pc'[w] = "register_conn")
                => C15_WriteIsIdempotent(settingsDB, settingsDB', loc[w].tenant)
          /\ (pc[w] = "register_conn" /\ pc'[w] = "shop")
                => C15_WriteIsIdempotent(connDB, connDB', loc[w].tenant)]_vars

\* C15 witness: tenant 1 has been registered again by a later request while
\* tenant 2's entry is in the registry.
C15_Witness ==
    \E w \in Workers :
        /\ pc[w] = "shop" /\ loc[w].tenant = 1 /\ regWrites[w] = 2
        /\ liveSP[w][1] # Closed
        /\ db_alias(2) \in DOMAIN settingsDB /\ db_alias(2) \in DOMAIN connDB

\* The entries of a registry table are the registered tenants' own.
C16_OwnDescriptors(table) ==
    /\ DOMAIN table \subseteq { db_alias(t) : t \in TenantIds }
    /\ \A t \in TenantIds :
          db_alias(t) \in DOMAIN table
          => /\ table[db_alias(t)].NAME = TenantDbName(t)
             /\ table[db_alias(t)].CONN_MAX_AGE = RegisterConnMaxAge
             /\ table[db_alias(t)].OPTIONS = EmptyDict

\* C16: under every interleaving of the registrations of concurrent requests
\* each alias maps to the descriptor of its own tenant in settings.DATABASES
\* and in connections.databases, and the entry of a request that has
\* registered is never removed by another request's registration.
C16_ConcurrentRegistrationIsSafe ==
    /\ C16_OwnDescriptors(settingsDB)
    /\ C16_OwnDescriptors(connDB)
    /\ \A w \in Workers :
          /\ (route[w] = "tenant" /\ pc[w] \in {"register_conn", "shop", "search_path",
                                                 "call", "in_handler"})
                => db_alias(loc[w].tenant) \in DOMAIN settingsDB
          /\ (route[w] = "tenant" /\ pc[w] \in {"shop", "search_path", "call",
                                                 "in_handler"})
                => db_alias(loc[w].tenant) \in DOMAIN connDB

\* C16 witness: two requests of one tenant are between the two writes of
\* their registrations while the other tenant is registered.
C16_Witness ==
    /\ pc[1] = "register_conn" /\ pc[2] = "register_conn"
    /\ loc[1].tenant = 1 /\ loc[2].tenant = 1
    /\ db_alias(2) \in DOMAIN connDB

\* ------------------------------------------------- claims: Host Resolver

\* The resolution table: <<tenant subdomain, shop subdomain>> by the number
\* of labels, under the development marker and for every other host.
C19_Table(parts) ==
    LET n == Len(parts) IN
    IF \E i \in 1..n : parts[i] = "localhost"
    THEN IF n = 1 THEN <<None, None>>
         ELSE IF n = 2 THEN <<parts[1], None>>
         ELSE <<parts[n - 1], parts[1]>>
    ELSE IF n <= 2 THEN <<None, None>>
         ELSE IF n = 3 THEN <<parts[1], None>>
         ELSE <<parts[n - 2], parts[1]>>

\* The hosts the table has a row for: a host of 2 labels under the
\* development marker has 'localhost' as its second label.
C19_InTable(parts) ==
    (Len(parts) = 2 /\ (\E i \in 1..2 : parts[i] = "localhost"))
        => parts[2] = "localhost"

C23_Lower(label) ==
    CASE label = "LOCALHOST" -> "localhost"
      [] label = "Acme" -> "acme"
      [] OTHER -> label

C23_LowerAll(parts) == [i \in 1..Len(parts) |-> C23_Lower(parts[i])]

\* C23: host resolution ignores letter case and a ':port' suffix: the pair
\* resolved for a host is, up to letter case, the pair resolved for the
\* same host in lower case without its port.
C23_CaseAndPortIgnored ==
    parsed # NoParse
        => C23_LowerAll(parsed.result)
              = _parse_subdomains(C23_LowerAll(HostParts(parsed.raw)))

\* C12: an exception raised inside create_shop_schema - creating the schema,
\* pre-marking the shared migrations, migrating or verifying - reaches the
\* caller: a run in which one was raised does not return normally.
C12_ExceptionsPropagate ==
    \A w \in Workers :
        (prov[w].pc = "idle" /\ prov[w].result # "none"
           /\ (prov[w].failed \/ prov[w].swallowed))
        => prov[w].result = "raised"

====
